---------------------------- MODULE Spec2Model ----------------------------
(***************************************************************************)
(* Model of qterra's flight tracking core:                                 *)
(*   - the flight route resolver, GET /api/flights/route                   *)
(*     (src/src/app/api/flights/route.ts, second half), with its in-memory *)
(*     cache, the lazily loaded airport registry and the strategy chain;   *)
(*   - the page component's selection / route-fetch / polling handlers     *)
(*     (src/src/app/page.tsx);                                             *)
(*   - the live-state proxy, GET /api/flights (route.ts, first half), with *)
(*     its token cache and the normalisation of the feed;                  *)
(*   - the globe component's flight layer (src/unnamed/part_000): the      *)
(*     flight objects, the heading arcs and the selected flight's          *)
(*     interpolated position.                                              *)
(* Each action is one run of a handler between two network awaits.         *)
(***************************************************************************)
EXTENDS Integers, Sequences, FiniteSets, TLC

(***************************************************************************)
(* Bounds of the model.                                                    *)
(***************************************************************************)
MaxReq == 2       \* resolver requests sent in one behaviour
MaxTicks == 1     \* clock advances in one behaviour
MaxFetch == 3     \* route fetches the page starts in one behaviour
MaxPolls == 2     \* feed refreshes in flight at the same time
MaxFeedReq == 2   \* live-state requests received in one behaviour
MaxFeedTicks == 2 \* advances of the live-state handler's clock in one behaviour
MaxRefresh == 2   \* changes of the globe's flight list in one behaviour
MaxSelect == 3    \* changes of the globe's selection in one behaviour
MaxRebuild == 1   \* rebuilds of the globe in one behaviour
MaxChanges == 5   \* changes of the list and the selection and rebuilds together

(***************************************************************************)
(* Values.  JavaScript's undefined is the string "undefined"; an optional  *)
(* object or a regular expression's match is a sequence of length 0 or 1.  *)
(***************************************************************************)
Undefined == "undefined"
Truthy(s) == s # Undefined /\ s # ""
None == << >>
Some(v) == << v >>

RECURSIVE Str(_)
Str(cs) == IF cs = << >> THEN "" ELSE Head(cs) \o Str(Tail(cs))

RECURSIVE Unique(_)
Unique(s) ==
  IF s = << >> THEN << >>
  ELSE LET x == s[Len(s)]
           front == Unique(SubSeq(s, 1, Len(s) - 1))
       IN IF \E i \in 1..Len(front) : front[i] = x THEN front ELSE Append(front, x)

(***************************************************************************)
(* Characters and the string operations the handlers apply to a callsign.  *)
(***************************************************************************)
UpperLetters == {"A","B","C","D","E","F","G","H","I","J","K","L","M",
                 "N","O","P","Q","R","S","T","U","V","W","X","Y","Z"}
Digits == {"0","1","2","3","4","5","6","7","8","9"}
Whitespace == {" "}
UpperOf == [a |-> "A", b |-> "B", c |-> "C", d |-> "D", e |-> "E", f |-> "F",
            g |-> "G", h |-> "H", i |-> "I", j |-> "J", k |-> "K", l |-> "L",
            m |-> "M", n |-> "N", o |-> "O", p |-> "P", q |-> "Q", r |-> "R",
            s |-> "S", t |-> "T", u |-> "U", v |-> "V", w |-> "W", x |-> "X",
            y |-> "Y", z |-> "Z"]

ToUpperCase(cs) == [i \in 1..Len(cs) |->
                      IF cs[i] \in DOMAIN UpperOf THEN UpperOf[cs[i]] ELSE cs[i]]

NotSpace(c) == c \notin Whitespace

\* raw.replace(/\s+/g, "").toUpperCase()
Clean(cs) == ToUpperCase(SelectSeq(cs, NotSpace))

RECURSIVE TrimLeft(_)
TrimLeft(cs) == IF cs # << >> /\ Head(cs) \in Whitespace THEN TrimLeft(Tail(cs)) ELSE cs

RECURSIVE TrimRight(_)
TrimRight(cs) ==
  IF cs # << >> /\ cs[Len(cs)] \in Whitespace
  THEN TrimRight(SubSeq(cs, 1, Len(cs) - 1)) ELSE cs

\* String.prototype.trim
Trim(cs) == TrimRight(TrimLeft(cs))

(***************************************************************************)
(* Carrier code tables.                                                    *)
(***************************************************************************)
ICAO_TO_IATA ==
  [AAL |-> "AA", UAL |-> "UA", DAL |-> "DL", SWA |-> "WN", JBU |-> "B6",
   ASA |-> "AS", NKS |-> "NK", FFT |-> "F9", BAW |-> "BA", DLH |-> "LH",
   AFR |-> "AF", KLM |-> "KL", EZY |-> "U2", RYR |-> "FR", THY |-> "TK",
   UAE |-> "EK", QTR |-> "QR", ETH |-> "ET", SIA |-> "SQ", CPA |-> "CX",
   ANA |-> "NH", JAL |-> "JL", QFA |-> "QF", ACA |-> "AC", WJA |-> "WS",
   TAM |-> "JJ", LAN |-> "LA", AVA |-> "AV", CCA |-> "CA", CES |-> "MU",
   CSN |-> "CZ", AIC |-> "AI", AXB |-> "IX", IGO |-> "6E", VOZ |-> "VA",
   EIN |-> "EI", IBE |-> "IB", VLG |-> "VY", SAS |-> "SK", FIN |-> "AY",
   LOT |-> "LO", TAP |-> "TP", SVA |-> "SV", GIA |-> "GA", MAS |-> "MH",
   THA |-> "TG", KAL |-> "KE", AAR |-> "OZ", EVA |-> "BR", RAM |-> "AT",
   MSR |-> "MS", MEA |-> "ME", FDX |-> "FX", UPS |-> "5X", GTI |-> "8C",
   SKW |-> "OO", RPA |-> "YX", ENY |-> "MQ", PDT |-> "PT", JIA |-> "OH",
   CPZ |-> "RP", TCF |-> "QQ", EDV |-> "9E"]

ICAO_TO_NAME ==
  [AAL |-> "American Airlines", UAL |-> "United Airlines", DAL |-> "Delta Air Lines",
   SWA |-> "Southwest Airlines", JBU |-> "JetBlue", ASA |-> "Alaska Airlines",
   NKS |-> "Spirit Airlines", FFT |-> "Frontier Airlines", BAW |-> "British Airways",
   DLH |-> "Lufthansa", AFR |-> "Air France", KLM |-> "KLM", THY |-> "Turkish Airlines",
   UAE |-> "Emirates", QTR |-> "Qatar Airways", SIA |-> "Singapore Airlines",
   CPA |-> "Cathay Pacific", ANA |-> "ANA", JAL |-> "Japan Airlines",
   QFA |-> "Qantas", ACA |-> "Air Canada", FDX |-> "FedEx", UPS |-> "UPS Airlines",
   SKW |-> "SkyWest", RPA |-> "Republic Airways", ENY |-> "Envoy Air",
   EDV |-> "Endeavor Air", JIA |-> "PSA Airlines"]

\* table[key] ?? ""
Lookup(table, key) == IF key \in DOMAIN table THEN table[key] ELSE ""

\* Object.entries(ICAO_TO_IATA): the prefixes in the order the table lists them
CarrierPrefixes ==
  << "AAL", "UAL", "DAL", "SWA", "JBU", "ASA", "NKS", "FFT", "BAW", "DLH",
     "AFR", "KLM", "EZY", "RYR", "THY", "UAE", "QTR", "ETH", "SIA", "CPA",
     "ANA", "JAL", "QFA", "ACA", "WJA", "TAM", "LAN", "AVA", "CCA", "CES",
     "CSN", "AIC", "AXB", "IGO", "VOZ", "EIN", "IBE", "VLG", "SAS", "FIN",
     "LOT", "TAP", "SVA", "GIA", "MAS", "THA", "KAL", "AAR", "EVA", "RAM",
     "MSR", "MEA", "FDX", "UPS", "GTI", "SKW", "RPA", "ENY", "PDT", "JIA",
     "CPZ", "TCF", "EDV" >>

\* variant: the reverse map is keyed by the prefix
ReverseEntry_KeyedByPrefix(icao, iata) == [key |-> icao, value |-> iata]

\* IATA_TO_ICAO[iata] = icao: the key and the value one iteration writes
ReverseEntry(icao, iata) == [key |-> iata, value |-> icao]

\* for (const [icao, iata] of Object.entries(ICAO_TO_IATA)) ...: the writes, in order
ReverseWrites ==
  [i \in 1..Len(CarrierPrefixes) |->
     ReverseEntry(CarrierPrefixes[i], ICAO_TO_IATA[CarrierPrefixes[i]])]

\* the reverse map after the loop: every key holds the value written to it last
IATA_TO_ICAO ==
  [key \in {ReverseWrites[i].key : i \in DOMAIN ReverseWrites} |->
     LET i == CHOOSE i \in DOMAIN ReverseWrites :
                /\ ReverseWrites[i].key = key
                /\ \A j \in DOMAIN ReverseWrites :
                     j > i => ReverseWrites[j].key # key
     IN ReverseWrites[i].value]

\* clean.match(/^([A-Z]{3})(\d+)$/)
MatchesCallsign(clean) ==
  /\ Len(clean) >= 4
  /\ \A i \in 1..3 : clean[i] \in UpperLetters
  /\ \A i \in 4..Len(clean) : clean[i] \in Digits

parseCallsign(raw) ==
  LET clean == Clean(raw) IN
  IF ~MatchesCallsign(clean)
  THEN [icaoPrefix |-> "", flightNum |-> Str(clean), iataCode |-> "",
        airlineName |-> "", clean |-> Str(clean)]
  ELSE LET icaoPrefix == Str(SubSeq(clean, 1, 3)) IN
       [icaoPrefix |-> icaoPrefix,
        flightNum |-> Str(SubSeq(clean, 4, Len(clean))),
        iataCode |-> Lookup(ICAO_TO_IATA, icaoPrefix),
        airlineName |-> Lookup(ICAO_TO_NAME, icaoPrefix),
        clean |-> Str(clean)]

buildSearchQueries(callsign) ==
  LET p == parseCallsign(callsign) IN
  (IF p.iataCode # ""
   THEN << p.iataCode \o " " \o p.flightNum \o " flight status",
           p.iataCode \o p.flightNum \o " flight tracker" >>
   ELSE << >>)
  \o << "flight " \o p.clean >>

(***************************************************************************)
(* The airport registry file /data/airports.json: code -> coordinates and  *)
(* city (two of its entries; coordinates rounded to whole degrees).        *)
(***************************************************************************)
AirportsJson ==
  [JFK |-> [lat |-> 41, lng |-> -74, city |-> "New York"],
   LAX |-> [lat |-> 34, lng |-> -118, city |-> "Los Angeles"]]

\* what the catch of getAirportDb stores: {}
EmptyDb == [c \in {} |-> [lat |-> 0, lng |-> 0, city |-> ""]]

\* airports[code] is truthy
Known(airports, code) == code \in DOMAIN airports

(***************************************************************************)
(* Strategy A: parseSerpApiStructured.  A search payload is a record       *)
(*   flights_results, knowledge_graph, answer_box : None or Some(block)    *)
(*   organic_results : sequence of results                                 *)
(* and a block holds the fields the parser reads, each already coalesced   *)
(* over its alternative names (code ?? iata, airline ?? carrier, ...).     *)
(***************************************************************************)
NoStructured ==
  [departureCode |-> Undefined, arrivalCode |-> Undefined,
   departureCity |-> Undefined, arrivalCity |-> Undefined,
   airline |-> Undefined, flightNumber |-> Undefined,
   departureTime |-> Undefined, arrivalTime |-> Undefined, status |-> Undefined]

parseSerpApiStructured(data) ==
  LET p1 == IF data.flights_results # None
            THEN LET info == data.flights_results[1] IN
                 [departureCode |-> info.departureCode, arrivalCode |-> info.arrivalCode,
                  departureCity |-> info.departureCity, arrivalCity |-> info.arrivalCity,
                  airline |-> info.airline, flightNumber |-> info.flightNumber,
                  departureTime |-> info.departureTime, arrivalTime |-> info.arrivalTime,
                  status |-> info.status]
            ELSE NoStructured
      p2 == IF ~Truthy(p1.departureCode) /\ data.knowledge_graph # None
            THEN LET kg == data.knowledge_graph[1] IN
                 [p1 EXCEPT !.departureCode = kg.departureCode,
                            !.arrivalCode = kg.arrivalCode,
                            !.departureCity = kg.departureCity,
                            !.arrivalCity = kg.arrivalCity,
                            !.airline = kg.airline,
                            !.flightNumber = kg.flightNumber,
                            !.status = kg.status]
            ELSE p1
      p3 == IF ~Truthy(p2.departureCode) /\ data.answer_box # None
            THEN LET ab == data.answer_box[1] IN
                 [p2 EXCEPT !.departureCode = ab.departureCode,
                            !.arrivalCode = ab.arrivalCode,
                            !.departureCity = ab.departureCity,
                            !.arrivalCity = ab.arrivalCity,
                            !.airline = ab.airline,
                            !.flightNumber = ab.flightNumber,
                            !.status = ab.status]
            ELSE p2
  IN p3

(***************************************************************************)
(* Strategy B: parseOrganicResults.  An organic result is the outcome of   *)
(* each regular expression on its title + snippet (and link):              *)
(*   arrow, fromTo, icao4, link : None or Some(<<dep, arr>>)               *)
(*   tokens : the matches of /\b[A-Z]{3}\b/g, in text order                *)
(***************************************************************************)
NoCodes == [departureCode |-> Undefined, arrivalCode |-> Undefined]
Codes(dep, arr) == [departureCode |-> dep, arrivalCode |-> arr]

\* a matched pair whose two codes are both in the registry
ValidPair(m, airports) == m # None /\ Known(airports, m[1][1]) /\ Known(airports, m[1][2])

\* variant: the tokens are not filtered against the registry
KnownCodes_Unfiltered(tokens, airports) == tokens

\* iataMatches.filter((c) => airports[c])
KnownCodes(tokens, airports) ==
  LET IsKnown(c) == Known(airports, c) IN SelectSeq(tokens, IsKnown)

\* one iteration of the loop over organic results: Some(codes) when it returns
parseOrganicResult(result, airports) ==
  LET known == KnownCodes(result.tokens, airports) IN
  IF ValidPair(result.arrow, airports)
    THEN Some(Codes(result.arrow[1][1], result.arrow[1][2]))
  ELSE IF ValidPair(result.fromTo, airports)
    THEN Some(Codes(result.fromTo[1][1], result.fromTo[1][2]))
  ELSE IF ValidPair(result.icao4, airports)
    THEN Some(Codes(result.icao4[1][1], result.icao4[1][2]))
  ELSE IF ValidPair(result.link, airports)
    THEN Some(Codes(result.link[1][1], result.link[1][2]))
  ELSE IF Len(known) >= 2
    THEN Some(Codes(known[1], known[2]))
  ELSE None

OrganicSlice == 8

RECURSIVE parseOrganicFrom(_, _)
parseOrganicFrom(organics, airports) ==
  IF organics = << >> THEN NoCodes
  ELSE LET got == parseOrganicResult(Head(organics), airports) IN
       IF got # None THEN got[1] ELSE parseOrganicFrom(Tail(organics), airports)

parseOrganicResults(data, airports) ==
  parseOrganicFrom(SubSeq(data.organic_results, 1,
                          IF Len(data.organic_results) < OrganicSlice
                          THEN Len(data.organic_results) ELSE OrganicSlice),
                   airports)

(***************************************************************************)
(* Strategy C: the patterns of fetchFlightAwarePage on the fetched HTML.   *)
(* A page is the outcome of each regular expression on it:                 *)
(*   title : None or Some(<<dep, arr>>), each a sequence of 3 or 4 letters *)
(*   origin, destination : None or Some(code)                              *)
(*   blob : None or Some(<<dep, arr>>)                                     *)
(*   icao4s : the captures of /\bK([A-Z]{3})\b/g; iatas : of /\b([A-Z]{3})\b/g *)
(***************************************************************************)
\* titleMatch[i].length === 4 && startsWith("K") ? slice(1) : titleMatch[i]
StripK(code) == IF Len(code) = 4 /\ code[1] = "K" THEN Str(Tail(code)) ELSE Str(code)

parseFlightAwareHtml(html, airports) ==
  LET tdep == IF html.title # None THEN StripK(html.title[1][1]) ELSE Undefined
      tarr == IF html.title # None THEN StripK(html.title[1][2]) ELSE Undefined
      knownAirports == Unique(KnownCodes(html.icao4s, airports))
      knownIata == Unique(KnownCodes(html.iatas, airports))
  IN
  IF html.title # None /\ Known(airports, tdep) /\ Known(airports, tarr)
    THEN Some(Codes(tdep, tarr))
  ELSE IF /\ html.origin # None /\ html.destination # None
          /\ Known(airports, html.origin[1]) /\ Known(airports, html.destination[1])
    THEN Some(Codes(html.origin[1], html.destination[1]))
  ELSE IF ValidPair(html.blob, airports)
    THEN Some(Codes(html.blob[1][1], html.blob[1][2]))
  ELSE IF Len(knownAirports) >= 2
    THEN Some(Codes(knownAirports[1], knownAirports[2]))
  ELSE IF Len(knownIata) >= 2
    THEN Some(Codes(knownIata[1], knownIata[2]))
  ELSE None

(***************************************************************************)
(* buildRoute: the route record assembled from two codes and the extras.   *)
(***************************************************************************)
\* a || b || undefined
OrElse(a, b) == IF Truthy(a) THEN a ELSE IF Truthy(b) THEN b ELSE Undefined
\* a ?? b
Coalesce(a, b) == IF a # Undefined THEN a ELSE b

\* variant: the values derived from the callsign come first
buildRoute_CallsignFirst(callsign, departureCode, arrivalCode, airports, extras) ==
  LET p == parseCallsign(callsign)
      hasDep == Known(airports, departureCode)
      hasArr == Known(airports, arrivalCode)
  IN [callsign |-> Str(Clean(callsign)),
      airline |-> OrElse(Lookup(ICAO_TO_NAME, p.icaoPrefix), extras.airline),
      flightNumber |-> OrElse(IF p.iataCode # "" THEN p.iataCode \o " " \o p.flightNum
                              ELSE Undefined,
                              extras.flightNumber),
      departureAirport |-> departureCode,
      departureCity |-> Coalesce(extras.departureCity,
                                 IF hasDep THEN airports[departureCode].city ELSE Undefined),
      departureLat |-> IF hasDep THEN airports[departureCode].lat ELSE 0,
      departureLng |-> IF hasDep THEN airports[departureCode].lng ELSE 0,
      arrivalAirport |-> arrivalCode,
      arrivalCity |-> Coalesce(extras.arrivalCity,
                               IF hasArr THEN airports[arrivalCode].city ELSE Undefined),
      arrivalLat |-> IF hasArr THEN airports[arrivalCode].lat ELSE 0,
      arrivalLng |-> IF hasArr THEN airports[arrivalCode].lng ELSE 0,
      departureTime |-> extras.departureTime,
      arrivalTime |-> extras.arrivalTime,
      status |-> extras.status]

buildRoute(callsign, departureCode, arrivalCode, airports, extras) ==
  LET p == parseCallsign(callsign)
      hasDep == Known(airports, departureCode)
      hasArr == Known(airports, arrivalCode)
  IN [callsign |-> Str(Clean(callsign)),
      airline |-> OrElse(extras.airline, Lookup(ICAO_TO_NAME, p.icaoPrefix)),
      flightNumber |-> OrElse(extras.flightNumber,
                              IF p.iataCode # "" THEN p.iataCode \o " " \o p.flightNum
                              ELSE Undefined),
      departureAirport |-> departureCode,
      departureCity |-> Coalesce(extras.departureCity,
                                 IF hasDep THEN airports[departureCode].city ELSE Undefined),
      departureLat |-> IF hasDep THEN airports[departureCode].lat ELSE 0,
      departureLng |-> IF hasDep THEN airports[departureCode].lng ELSE 0,
      arrivalAirport |-> arrivalCode,
      arrivalCity |-> Coalesce(extras.arrivalCity,
                               IF hasArr THEN airports[arrivalCode].city ELSE Undefined),
      arrivalLat |-> IF hasArr THEN airports[arrivalCode].lat ELSE 0,
      arrivalLng |-> IF hasArr THEN airports[arrivalCode].lng ELSE 0,
      departureTime |-> extras.departureTime,
      arrivalTime |-> extras.arrivalTime,
      status |-> extras.status]

(***************************************************************************)
(* State of the resolver.                                                  *)
(***************************************************************************)
VARIABLES
  now,         \* Date.now(), in ms
  ticks,       \* number of clock advances so far
  apiKey,      \* process.env.SERPAPI_API_KEY is set
  cache,       \* the Map cacheKey -> [route, expiresAt]
  airportDb,   \* None (null) or Some(registry)
  reqs,        \* the handler invocations, in the order the requests were sent
  last         \* the response returned most recently, with its request

resolverVars == << now, ticks, apiKey, cache, airportDb, reqs, last >>

CACHE_TTL_MS == 6 * 60 * 60 * 1000

Reqs == 1..MaxReq

(***************************************************************************)
(* Inputs: callsigns as the caller sends them (sequences of characters),   *)
(* search payloads and fetched pages.                                      *)
(***************************************************************************)
RawCallsigns ==
  { << "D","A","L","1","9","5","0" >>,
    << " ","d","a","l"," ","1","9","5","0" >>,
    << "X","Y","Z","9","9","9" >>,
    << " " >> }

Block(dep, arr, airline) ==
  [NoStructured EXCEPT !.departureCode = dep, !.arrivalCode = arr, !.airline = airline]

Organic(arrow, tokens) ==
  [arrow |-> arrow, fromTo |-> None, icao4 |-> None, link |-> None, tokens |-> tokens]

Payload(fr, kg, ab, org) ==
  [flights_results |-> fr, knowledge_graph |-> kg, answer_box |-> ab, organic_results |-> org]

SearchPayloads ==
  { \* the flights block names two registry airports, the airline and the
    \* flight number
    Payload(Some([Block("JFK", "LAX", "Delta") EXCEPT !.flightNumber = "Delta 1950"]),
            None, None, << >>),
    \* the knowledge panel names a departure code the registry does not hold
    Payload(None, Some(Block("ZZZ", "LAX", Undefined)), None, << >>),
    \* the answer box has a departure only; an organic result has "JFK - LAX"
    Payload(None, None, Some(Block("JFK", Undefined, Undefined)),
            << Organic(Some(<< "JFK", "LAX" >>), << "JFK", "LAX" >>) >>),
    \* "ZZZ - LAX" does not validate; the next text holds ZZZ, JFK and LAX
    Payload(None, None, None,
            << Organic(Some(<< "ZZZ", "LAX" >>), << "ZZZ", "LAX" >>),
               Organic(None, << "ZZZ", "JFK", "LAX" >>) >>),
    \* no pattern matches; the text names JFK twice and no other known code
    Payload(None, None, None, << Organic(None, << "JFK", "ZZZ", "JFK" >>) >>),
    \* nothing usable
    Payload(None, None, None, << Organic(None, << "ZZZ" >>) >>) }

Html(title, origin, destination, iatas) ==
  [title |-> title, origin |-> origin, destination |-> destination, blob |-> None,
   icao4s |-> << >>, iatas |-> iatas]

Pages ==
  { \* <title>... (KJFK - LAX) ...</title>
    Html(Some(<< << "K","J","F","K" >>, << "L","A","X" >> >>), None, None, << >>),
    \* no title pair; the page text holds JFK, JFK, LAX
    Html(None, None, None, << "JFK", "JFK", "LAX" >>),
    \* an unknown origin and nothing else
    Html(None, Some("ZZZ"), Some("LAX"), << "LAX" >>) }

(***************************************************************************)
(* The cache Map and the request records.                                  *)
(***************************************************************************)
EmptyMap == [k \in {} |-> [route |-> 0, expiresAt |-> 0]]

\* cache.get(key): None when the key is absent
CacheGet(map, key) == IF key \in DOMAIN map THEN Some(map[key]) ELSE None

\* cache.set(key, entry)
CacheSet(map, key, entry) ==
  [k \in DOMAIN map \cup {key} |-> IF k = key THEN entry ELSE map[k]]

\* variant: an entry still counts at the instant of its expiry
Fresh_Inclusive(cached, t) == cached # None /\ t <= cached[1].expiresAt

\* cached && Date.now() < cached.expiresAt
Fresh(cached, t) == cached # None /\ t < cached[1].expiresAt

\* callsign.replace(/\s+/g, "").toUpperCase() of the trimmed parameter
CacheKey(raw) == Str(Clean(Trim(raw)))

NoRoute ==
  [callsign |-> Undefined, airline |-> Undefined, flightNumber |-> Undefined,
   departureAirport |-> Undefined, departureCity |-> Undefined,
   departureLat |-> 0, departureLng |-> 0,
   arrivalAirport |-> Undefined, arrivalCity |-> Undefined,
   arrivalLat |-> 0, arrivalLng |-> 0,
   departureTime |-> Undefined, arrivalTime |-> Undefined, status |-> Undefined]

NoResp == [status |-> 0, route |-> NoRoute, cached |-> FALSE]

\* pc: "idle" (not sent yet), "registry", "search", "page" (the
\* await the handler is at), "done" (it returned).  callsign, cacheKey, airports
\* and queries are the handler's locals; q is the loop's position in queries.
\* History: log is the external calls and strategy outcomes so far, via the
\* strategy that produced the response, aborted whether the caller gave up,
\* sawExpired whether the cache held an expired entry when the request came.
IdleReq ==
  [pc |-> "idle", callsign |-> << >>, cacheKey |-> "", airports |-> EmptyDb,
   queries |-> << >>, q |-> 0, log |-> << >>, resp |-> NoResp,
   aborted |-> FALSE, via |-> "", sawExpired |-> FALSE]

\* what one step of a request does: its new record, and the route it stores, if any
Effect(req, store) == [req |-> req, store |-> store]

Respond(req, status, route, cached, via) ==
  [req EXCEPT !.pc = "done", !.via = via,
              !.resp = [status |-> status, route |-> route, cached |-> cached]]

(***************************************************************************)
(* GET /api/flights/route, cut at its network awaits.                      *)
(***************************************************************************)
IssuePage(req) == [req EXCEPT !.pc = "page", !.log = Append(@, "page")]

IssueQuery(req, q) == [req EXCEPT !.pc = "search", !.q = q, !.log = Append(@, "query")]

\* the strategy chain starts: the first search query, or the page fetch
StartChain(req, airports, hasKey) ==
  LET queries == buildSearchQueries(req.callsign)
      r1 == [req EXCEPT !.airports = airports] IN
  IF hasKey /\ Len(queries) >= 1 THEN IssueQuery([r1 EXCEPT !.queries = queries], 1)
  ELSE IssuePage(r1)

\* the handler up to its first network await
StartRequest(req, raw, t, map, db, hasKey) ==
  LET callsign == Trim(raw)
      cacheKey == CacheKey(raw)
      cached == CacheGet(map, cacheKey)
      r0 == [req EXCEPT !.callsign = callsign, !.cacheKey = cacheKey]
  IN
  IF callsign = << >> THEN Respond(r0, 400, NoRoute, FALSE, "")
  ELSE IF Fresh(cached, t) THEN Respond(r0, 200, cached[1].route, TRUE, "cache")
  ELSE IF db # None THEN StartChain(r0, db[1], hasKey)
  ELSE [r0 EXCEPT !.pc = "registry", !.log = Append(@, "registry")]

\* a route was found: it is stored and returned
Found(req, codes, extras, by) ==
  LET route == buildRoute(req.callsign, codes.departureCode, codes.arrivalCode,
                          req.airports, extras)
  IN Effect(Respond(req, 200, route, FALSE, by), Some(route))

\* variant: organic parsing is skipped when the structured data has no codes
OnPayload_SkipOrganic(req, data) ==
  LET structured == parseSerpApiStructured(data) IN
  IF Truthy(structured.departureCode) /\ Truthy(structured.arrivalCode)
    THEN Found([req EXCEPT !.log = Append(@, "Aok")], structured, structured, "A")
  ELSE Effect(IssuePage([req EXCEPT !.log = Append(@, "Afail")]), None)

\* the search answered with a payload
OnPayload(req, data) ==
  LET structured == parseSerpApiStructured(data)
      organic == parseOrganicResults(data, req.airports)
  IN
  IF Truthy(structured.departureCode) /\ Truthy(structured.arrivalCode)
    THEN Found([req EXCEPT !.log = Append(@, "Aok")], structured, structured, "A")
  ELSE IF Truthy(organic.departureCode) /\ Truthy(organic.arrivalCode)
    THEN Found([req EXCEPT !.log = @ \o << "Afail", "Bok" >>], organic, NoStructured, "B")
  ELSE Effect(IssuePage([req EXCEPT !.log = @ \o << "Afail", "Bfail" >>]), None)

\* the search answered with a non-success status: continue
OnSearchNotOk(req) ==
  LET r1 == [req EXCEPT !.log = Append(@, "notok")] IN
  IF req.q < Len(req.queries)
  THEN Effect(IssueQuery(r1, req.q + 1), None)
  ELSE Effect(IssuePage(r1), None)

\* variant: a search request that throws ends the request with an error
OnSearchThrow_Fatal(req) == Effect(Respond(req, 500, NoRoute, FALSE, ""), None)

\* the search request or the reading of its body threw: catch, then break
OnSearchThrow(req) == Effect(IssuePage([req EXCEPT !.log = Append(@, "throw")]), None)

\* variant: the miss is remembered in the cache
NotFound_NegativeCache(req) == Effect(Respond(req, 404, NoRoute, FALSE, ""), Some(NoRoute))

\* 404: Could not determine flight route
NotFound(req) == Effect(Respond(req, 404, NoRoute, FALSE, ""), None)

\* the page fetch answered with a page
OnPage(req, html) ==
  LET got == parseFlightAwareHtml(html, req.airports) IN
  IF got # None THEN Found(req, got[1], NoStructured, "C") ELSE NotFound(req)

\* the state of the page component (Home) that the flight tracker uses
VARIABLES
  flightsEnabled,      \* tracking switch
  flights,             \* the aircraft of the last feed response
  flightsLoading,
  flightsError,
  polls,               \* fetchFlights calls awaiting their response
  selectedFlightIcao,  \* "" when nothing is selected
  flightRoute,         \* None or Some(route)
  flightRouteLoading,
  flightRouteError,    \* "" when null
  routeFetchRef,       \* the fetch whose AbortController the ref holds (0: null)
  fetches              \* the fetchFlightRoute calls, in the order they started

pageVars ==
  << flightsEnabled, flights, flightsLoading, flightsError, polls,
     selectedFlightIcao, flightRoute, flightRouteLoading, flightRouteError,
     routeFetchRef, fetches >>

\* the module state of the live-state handler and its requests
VARIABLES
  feedNow,         \* Date.now() of the live-state handler, in ms
  feedTicks,       \* number of clock advances so far
  credentials,     \* OPENSKY_CLIENT_ID and OPENSKY_CLIENT_SECRET are both set
  cachedToken,     \* None (null) or Some(token)
  tokenExpiresAt,  \* unix ms
  feedReqs         \* the live-state requests

feedVars == << feedNow, feedTicks, credentials, cachedToken, tokenExpiresAt, feedReqs >>

\* the props and refs of the globe component (GlobeObject)
VARIABLES
  props,          \* flights, selectedFlightIcao, flightRoute
  selAnim,        \* selAnimRef.current
  flightObjs,     \* flightObjMapRef.current: icao24 -> data object and its mesh
  flightArcs,     \* the heading arcs in flightArcsGroupRef.current
  routeArc,       \* the route arc and markers in routeArcGroupRef.current
  refreshes,      \* number of changes of props.flights so far
  selections,     \* number of changes of props.selectedFlightIcao so far
  rebuilds        \* number of rebuilds of the globe so far

globeVars == << props, selAnim, flightObjs, flightArcs, routeArc, refreshes,
                selections, rebuilds >>

\* the flights panel and what the page hands to it
VARIABLES
  panelFlights,   \* the page's flights, the panel's flights prop
  countryFilter   \* the panel's country chip: None or Some(country)

panelVars == << panelFlights, countryFilter >>

vars == << resolverVars, pageVars, feedVars, globeVars, panelVars >>

(***************************************************************************)
(* Actions of the resolver.  The caller is the page: it holds one abort    *)
(* controller, aborts the request it has outstanding before it sends the   *)
(* next one, and may abort without sending another.  The handler never     *)
(* reads the request's abort signal, so an aborted request runs on.        *)
(***************************************************************************)
\* controller.abort() on the caller's side
Abort(rs, r) ==
  IF r \in Reqs /\ rs[r].pc # "done" THEN [rs EXCEPT ![r].aborted = TRUE] ELSE rs

\* cache.set(cacheKey, { route, expiresAt: Date.now() + CACHE_TTL_MS })
StoreRoute(map, key, route, t) ==
  CacheSet(map, key, [route |-> route, expiresAt |-> t + CACHE_TTL_MS])

NoLast ==
  [cacheKey |-> "", resp |-> NoResp, via |-> "", log |-> << >>,
   aborted |-> FALSE, sawExpired |-> FALSE]

\* the record of a returned response: what was asked, what came back, how
Returned(req) ==
  [cacheKey |-> req.cacheKey, resp |-> req.resp, via |-> req.via,
   log |-> req.log, aborted |-> req.aborted, sawExpired |-> req.sawExpired]

DoneReq == [IdleReq EXCEPT !.pc = "done"]

\* a request moves on; of a handler that has returned only the response is kept
Advance(rs, r, req) ==
  /\ reqs' = [rs EXCEPT ![r] = IF req.pc = "done" THEN DoneReq ELSE req]
  /\ last' = IF req.pc = "done" THEN Returned(req) ELSE last

Apply(r, eff) ==
  /\ Advance(reqs, r, eff.req)
  /\ cache' = IF eff.store # None
              THEN StoreRoute(cache, reqs[r].cacheKey, eff.store[1], now)
              ELSE cache

Sent == {r \in Reqs : reqs[r].pc # "idle"}
InFlight == {r \in Reqs : reqs[r].pc \notin {"idle", "done"}}
\* the request the caller sent last (0: none yet)
Latest == IF Sent = {} THEN 0 ELSE CHOOSE r \in Sent : \A o \in Sent : o <= r

\* the cache holds an entry for the key, and its expiry has been reached
Expired(map, key, t) == key \in DOMAIN map /\ t >= map[key].expiresAt

\* the caller aborts what it has outstanding and sends a request; the handler
\* runs up to its first network await
Call(raw) ==
  /\ Latest < MaxReq
  /\ LET r == Latest + 1
         fresh == [IdleReq EXCEPT !.sawExpired = Expired(cache, CacheKey(raw), now)]
     IN Advance(Abort(reqs, Latest), r,
                StartRequest(fresh, raw, now, cache, airportDb, apiKey))
  /\ UNCHANGED << now, ticks, apiKey, cache, airportDb >>
  /\ UNCHANGED << pageVars, feedVars, globeVars, panelVars >>

\* the caller aborts what it has outstanding and sends nothing
Cancel ==
  /\ Latest \in InFlight
  /\ ~reqs[Latest].aborted
  /\ reqs' = Abort(reqs, Latest)
  /\ UNCHANGED << now, ticks, apiKey, cache, airportDb, last >>
  /\ UNCHANGED << pageVars, feedVars, globeVars, panelVars >>

\* getAirportDb after its fetch: the registry, or {} when the load threw
RegistryLoaded(r, ok) ==
  /\ reqs[r].pc = "registry"
  /\ airportDb' = Some(IF ok THEN AirportsJson ELSE EmptyDb)
  /\ Advance(reqs, r, StartChain(reqs[r], airportDb'[1], apiKey))
  /\ UNCHANGED << now, ticks, apiKey, cache >>
  /\ UNCHANGED << pageVars, feedVars, globeVars, panelVars >>

SearchPayload(r, data) ==
  /\ reqs[r].pc = "search"
  /\ Apply(r, OnPayload(reqs[r], data))
  /\ UNCHANGED << now, ticks, apiKey, airportDb >>
  /\ UNCHANGED << pageVars, feedVars, globeVars, panelVars >>

SearchNotOk(r) ==
  /\ reqs[r].pc = "search"
  /\ Apply(r, OnSearchNotOk(reqs[r]))
  /\ UNCHANGED << now, ticks, apiKey, airportDb >>
  /\ UNCHANGED << pageVars, feedVars, globeVars, panelVars >>

SearchThrow(r) ==
  /\ reqs[r].pc = "search"
  /\ Apply(r, OnSearchThrow(reqs[r]))
  /\ UNCHANGED << now, ticks, apiKey, airportDb >>
  /\ UNCHANGED << pageVars, feedVars, globeVars, panelVars >>

PageFetched(r, html) ==
  /\ reqs[r].pc = "page"
  /\ Apply(r, OnPage(reqs[r], html))
  /\ UNCHANGED << now, ticks, apiKey, airportDb >>
  /\ UNCHANGED << pageVars, feedVars, globeVars, panelVars >>

\* the page fetch answered with a non-success status, timed out or threw
PageFailed(r) ==
  /\ reqs[r].pc = "page"
  /\ Apply(r, NotFound(reqs[r]))
  /\ UNCHANGED << now, ticks, apiKey, airportDb >>
  /\ UNCHANGED << pageVars, feedVars, globeVars, panelVars >>

TickSteps == {CACHE_TTL_MS - 1, CACHE_TTL_MS}

Tick(d) ==
  /\ ticks < MaxTicks
  /\ now' = now + d
  /\ ticks' = ticks + 1
  /\ UNCHANGED << apiKey, cache, airportDb, reqs, last >>
  /\ UNCHANGED << pageVars, feedVars, globeVars, panelVars >>

ResolverInit ==
  /\ now = 0
  /\ ticks = 0
  /\ apiKey \in BOOLEAN
  /\ cache = EmptyMap
  /\ airportDb = None
  /\ reqs = [r \in Reqs |-> IdleReq]
  /\ last = NoLast

ResolverNext ==
  \/ \E raw \in RawCallsigns : Call(raw)
  \/ Cancel
  \/ \E r \in Reqs, ok \in BOOLEAN : RegistryLoaded(r, ok)
  \/ \E r \in Reqs, data \in SearchPayloads : SearchPayload(r, data)
  \/ \E r \in Reqs : SearchNotOk(r)
  \/ \E r \in Reqs : SearchThrow(r)
  \/ \E r \in Reqs, html \in Pages : PageFetched(r, html)
  \/ \E r \in Reqs : PageFailed(r)
  \/ \E d \in TickSteps : Tick(d)

(***************************************************************************)
(* The page component (Home): flight tracking state, the feed polling and   *)
(* the route fetch of the selected aircraft.  The camera and the globe's    *)
(* flight list, which the same handlers also set, are not part of it.       *)
(***************************************************************************)
\* the aircraft of the feed, as the panel lists them: icao24 and callsign
Aircraft ==
  { [icao24 |-> "a1", callsign |-> << "D","A","L","1","9","5","0" >>],
    [icao24 |-> "a2", callsign |-> << "U","A","L","1","2" >>],
    [icao24 |-> "a3", callsign |-> << >>] }

\* the feed responses: every aircraft, or none
FeedLists == { Aircraft, {} }

Letters == UpperLetters \cup DOMAIN UpperOf

\* /^[A-Z]{2,3}\d+/i.test(callsign)
LooksLikeFlight(cs) ==
  /\ Len(cs) >= 3
  /\ cs[1] \in Letters /\ cs[2] \in Letters
  /\ \/ cs[3] \in Digits
     \/ Len(cs) >= 4 /\ cs[3] \in Letters /\ cs[4] \in Digits

Fetches == 1..MaxFetch

\* state: "idle" (not started), "pending" (awaiting the response), "aborted"
\* (its signal was aborted, the rejection not yet handled), "done"
IdleFetch == [state |-> "idle", callsign |-> << >>, icao24 |-> ""]

Started == {i \in Fetches : fetches[i].state # "idle"}

\* the rejection of an aborted fetch is handled before any other event
NoRejectionQueued == \A i \in Fetches : fetches[i].state # "aborted"

\* routeFetchRef.current?.abort()
AbortRef(fs, ref) ==
  IF ref \in Fetches /\ fs[ref].state = "pending"
  THEN [fs EXCEPT ![ref].state = "aborted"] ELSE fs

\* the route the resolver returns for a callsign
RouteFor(callsign) == buildRoute(callsign, "JFK", "LAX", AirportsJson, NoStructured)

\* fetchFlights up to its await
StartPoll ==
  /\ polls < MaxPolls
  /\ polls' = polls + 1
  /\ flightsLoading' = TRUE
  /\ flightsError' = ""

\* the switch is turned on: the effect polls at once and sets the interval
EnableFlights ==
  /\ NoRejectionQueued
  /\ ~flightsEnabled
  /\ flightsEnabled' = TRUE
  /\ StartPoll
  /\ UNCHANGED << flights, selectedFlightIcao, flightRoute, flightRouteLoading,
                  flightRouteError, routeFetchRef, fetches >>
  /\ UNCHANGED << resolverVars, feedVars, globeVars, panelVars >>

\* the switch is turned off: the effect clears the state and the interval
DisableFlights ==
  /\ NoRejectionQueued
  /\ flightsEnabled
  /\ flightsEnabled' = FALSE
  /\ flights' = {}
  /\ selectedFlightIcao' = ""
  /\ flightRoute' = None
  /\ flightRouteError' = ""
  /\ flightRouteLoading' = FALSE
  /\ fetches' = AbortRef(fetches, routeFetchRef)
  /\ UNCHANGED << flightsLoading, flightsError, polls, routeFetchRef >>
  /\ UNCHANGED << resolverVars, feedVars, globeVars, panelVars >>

\* the 15 s interval fires
TimerFires ==
  /\ NoRejectionQueued
  /\ flightsEnabled
  /\ StartPoll
  /\ UNCHANGED << flightsEnabled, flights, selectedFlightIcao, flightRoute,
                  flightRouteLoading, flightRouteError, routeFetchRef, fetches >>
  /\ UNCHANGED << resolverVars, feedVars, globeVars, panelVars >>

\* the refresh button, disabled while loading
ManualRefresh ==
  /\ NoRejectionQueued
  /\ flightsEnabled
  /\ ~flightsLoading
  /\ StartPoll
  /\ UNCHANGED << flightsEnabled, flights, selectedFlightIcao, flightRoute,
                  flightRouteLoading, flightRouteError, routeFetchRef, fetches >>
  /\ UNCHANGED << resolverVars, feedVars, globeVars, panelVars >>

\* fetchFlights after its await: the list, an API error, or a network error
PollReturns(ok, list) ==
  /\ NoRejectionQueued
  /\ polls > 0
  /\ polls' = polls - 1
  /\ flights' = IF ok THEN list ELSE flights
  /\ flightsError' = IF ok THEN flightsError ELSE "error"
  /\ flightsLoading' = FALSE
  /\ UNCHANGED << flightsEnabled, selectedFlightIcao, flightRoute, flightRouteLoading,
                  flightRouteError, routeFetchRef, fetches >>
  /\ UNCHANGED << resolverVars, feedVars, globeVars, panelVars >>

\* fetchFlightRoute up to its await
StartRouteFetch(f) ==
  LET i == Cardinality(Started) + 1 IN
  /\ i \in Fetches
  /\ fetches' = [AbortRef(fetches, routeFetchRef) EXCEPT
                   ![i] = [state |-> "pending", callsign |-> Trim(f.callsign),
                           icao24 |-> f.icao24]]
  /\ routeFetchRef' = i
  /\ flightRouteLoading' = TRUE
  /\ flightRouteError' = ""
  /\ flightRoute' = None

\* handleSelectFlight(f) for a row of the list that is not the selected one
SelectFlight(f) ==
  /\ NoRejectionQueued
  /\ flightsEnabled
  /\ f \in flights
  /\ f.icao24 # selectedFlightIcao
  /\ selectedFlightIcao' = f.icao24
  /\ IF f.callsign # << >> /\ LooksLikeFlight(Trim(f.callsign))
     THEN StartRouteFetch(f)
     ELSE /\ flightRoute' = None
          /\ flightRouteError' = ""
          /\ UNCHANGED << flightRouteLoading, routeFetchRef, fetches >>
  /\ UNCHANGED << flightsEnabled, flights, flightsLoading, flightsError, polls >>
  /\ UNCHANGED << resolverVars, feedVars, globeVars, panelVars >>

\* handleSelectFlight(null): the selected row is clicked again
DeselectFlight ==
  /\ NoRejectionQueued
  /\ flightsEnabled
  /\ \E f \in flights : f.icao24 = selectedFlightIcao
  /\ selectedFlightIcao' = ""
  /\ fetches' = AbortRef(fetches, routeFetchRef)
  /\ flightRoute' = None
  /\ flightRouteError' = ""
  /\ flightRouteLoading' = FALSE
  /\ UNCHANGED << flightsEnabled, flights, flightsLoading, flightsError, polls,
                  routeFetchRef >>
  /\ UNCHANGED << resolverVars, feedVars, globeVars, panelVars >>

\* fetchFlightRoute after its await: a route, an error response, or a failed request
RouteFetchReturns(i, outcome) ==
  /\ NoRejectionQueued
  /\ fetches[i].state = "pending"
  /\ fetches' = [fetches EXCEPT ![i].state = "done"]
  /\ flightRoute' = IF outcome = "route" THEN Some(RouteFor(fetches[i].callsign))
                    ELSE flightRoute
  /\ flightRouteError' = IF outcome = "route" THEN flightRouteError
                         ELSE IF outcome = "error" THEN "Could not determine flight route"
                         ELSE "Failed to look up flight route"
  /\ flightRouteLoading' = FALSE
  /\ UNCHANGED << flightsEnabled, flights, flightsLoading, flightsError, polls,
                  selectedFlightIcao, routeFetchRef >>
  /\ UNCHANGED << resolverVars, feedVars, globeVars, panelVars >>

\* fetchFlightRoute after its await, the signal aborted: catch (AbortError), finally
AbortedFetchSettles(i) ==
  /\ fetches[i].state = "aborted"
  /\ fetches' = [fetches EXCEPT ![i].state = "done"]
  /\ flightRouteLoading' = FALSE
  /\ UNCHANGED << flightsEnabled, flights, flightsLoading, flightsError, polls,
                  selectedFlightIcao, flightRoute, flightRouteError, routeFetchRef >>
  /\ UNCHANGED << resolverVars, feedVars, globeVars, panelVars >>

PageInit ==
  /\ flightsEnabled = FALSE
  /\ flights = {}
  /\ flightsLoading = FALSE
  /\ flightsError = ""
  /\ polls = 0
  /\ selectedFlightIcao = ""
  /\ flightRoute = None
  /\ flightRouteLoading = FALSE
  /\ flightRouteError = ""
  /\ routeFetchRef = 0
  /\ fetches = [i \in Fetches |-> IdleFetch]

PageNext ==
  \/ EnableFlights
  \/ DisableFlights
  \/ TimerFires
  \/ ManualRefresh
  \/ \E ok \in BOOLEAN, list \in FeedLists : PollReturns(ok, list)
  \/ \E f \in Aircraft : SelectFlight(f)
  \/ DeselectFlight
  \/ \E i \in Fetches, outcome \in {"route", "error", "failed"} : RouteFetchReturns(i, outcome)
  \/ \E i \in Fetches : AbortedFetchSettles(i)

(***************************************************************************)
(* The live-state proxy, GET /api/flights.  A JSON value of the feed is a  *)
(* record of its kind k and its value: n for a number, s for a string (its *)
(* characters), b for a boolean, a for an array (its elements).  A state   *)
(* array is a sequence of such values, read by 0-based index; an index     *)
(* past its end reads undefined.                                           *)
(***************************************************************************)
JNull == [k |-> "null", n |-> 0, s |-> << >>, b |-> FALSE, a |-> << >>]
JUndefined == [JNull EXCEPT !.k = "undefined"]
JNum(n) == [JNull EXCEPT !.k = "number", !.n = n]
JStr(cs) == [JNull EXCEPT !.k = "string", !.s = cs]
JBool(b) == [JNull EXCEPT !.k = "boolean", !.b = b]
JArray(seq) == [JNull EXCEPT !.k = "array", !.a = seq]

\* s[i]
At(s, i) == IF i < Len(s) THEN s[i + 1] ELSE JUndefined

\* x == null
IsNullish(x) == x.k \in {"null", "undefined"}

\* x ?? d for a number, x ?? "" for a string
OrNum(x, d) == IF IsNullish(x) THEN d ELSE x.n
OrStr(x) == IF IsNullish(x) THEN << >> ELSE x.s

\* !!x
ToBoolean(x) ==
  CASE x.k = "boolean" -> x.b
    [] x.k = "number" -> x.n # 0
    [] x.k = "string" -> x.s # << >>
    [] x.k = "array" -> TRUE
    [] OTHER -> FALSE

\* variant: entries are skipped when a coordinate is falsy
SkipEntry_Falsy(s) == ~ToBoolean(At(s, 6)) \/ ~ToBoolean(At(s, 5))

\* if (s[6] == null || s[5] == null) continue
SkipEntry(s) == IsNullish(At(s, 6)) \/ IsNullish(At(s, 5))

\* the object pushed for a state array
toFlight(s) ==
  [icao24 |-> Str(OrStr(At(s, 0))),
   callsign |-> Str(Trim(OrStr(At(s, 1)))),
   originCountry |-> Str(OrStr(At(s, 2))),
   lat |-> At(s, 6).n,
   lng |-> At(s, 5).n,
   altitude |-> OrNum(At(s, 7), OrNum(At(s, 13), 0)),
   velocity |-> OrNum(At(s, 9), 0),
   heading |-> OrNum(At(s, 10), 0),
   verticalRate |-> OrNum(At(s, 11), 0),
   onGround |-> ToBoolean(At(s, 8)),
   lastContact |-> OrNum(At(s, 4), 0),
   squawk |-> IF IsNullish(At(s, 14)) THEN Undefined ELSE Str(At(s, 14).s),
   category |-> OrNum(At(s, 17), 0)]

\* for (const s of data.states) { ...; flights.push({...}) }
RECURSIVE normalizeStates(_)
normalizeStates(states) ==
  IF states = << >> THEN << >>
  ELSE IF SkipEntry(Head(states)) THEN normalizeStates(Tail(states))
  ELSE << toFlight(Head(states)) >> \o normalizeStates(Tail(states))

NoFeedResp == [status |-> 0, count |-> 0, flights |-> << >>, error |-> ""]

\* variant: an envelope without a state array is answered with an error
OnFeedBody_Strict(data) ==
  IF data.states.k = "array"
  THEN [status |-> 200, count |-> Len(normalizeStates(data.states.a)),
        flights |-> normalizeStates(data.states.a), error |-> ""]
  ELSE [status |-> 502, count |-> 0, flights |-> << >>,
        error |-> "Failed to fetch OpenSky data"]

\* the response built from the parsed body: { time, count, flights }
OnFeedBody(data) ==
  LET list == IF data.states.k = "array" THEN normalizeStates(data.states.a) ELSE << >>
  IN [status |-> 200, count |-> Len(list), flights |-> list, error |-> ""]

\* catch (err): 502
FeedFailed ==
  [status |-> 502, count |-> 0, flights |-> << >>, error |-> "Failed to fetch OpenSky data"]

\* the feed's state arrays of the model
StateArray(icao, callsign, lng, lat, baro, ground, velocity) ==
  << JStr(icao), callsign, JStr(<< "U", "S" >>), JNum(100), JNum(101), lng, lat, baro,
     ground, velocity, JNum(90), JNum(0), JNull, JNum(9000), JNull, JBool(FALSE),
     JNum(0), JNum(1) >>

Airborne ==
  StateArray(<< "a", "1" >>, JStr(<< "D","A","L","1","9","5","0"," " >>),
             JNum(-74), JNum(41), JNum(10000), JBool(FALSE), JNum(250))
NoLat ==
  StateArray(<< "a", "2" >>, JStr(<< "U","A","L","1","2" >>),
             JNum(-118), JNull, JNum(9000), JBool(FALSE), JNum(200))
NoLng ==
  StateArray(<< "a", "3" >>, JNull, JNull, JNum(34), JNull, JBool(TRUE), JNull)
\* on the equator and the prime meridian
AtZero ==
  StateArray(<< "a", "4" >>, JStr(<< >>), JNum(0), JNum(0), JNull, JBool(FALSE), JNum(20))
\* an array that ends before its position
Short == SubSeq(Airborne, 1, 5)

Envelope(states) == [time |-> 1700000000, states |-> states]

FeedBodies ==
  { Envelope(JArray(<< Airborne, NoLat, AtZero >>)),
    Envelope(JArray(<< NoLng, AtZero, Short, Airborne >>)),
    Envelope(JArray(<< NoLat, Short >>)),
    Envelope(JArray(<< >>)),
    Envelope(JNull),
    Envelope(JUndefined),
    Envelope(JStr(<< "x" >>)) }

(***************************************************************************)
(* The token cache and the requests of the live-state handler.             *)
(* A request record holds the handler's position and locals:               *)
(*   pc : "idle", "token" (awaiting the token exchange), "feed" (awaiting  *)
(*        the feed), "done"                                                *)
(*   exchange : what became of its token exchange: "none", "pending",      *)
(*        "ok", "notoken" (no access_token in the answer), "notok", "threw"*)
(*   auth : the Authorization header of its feed query: None, or the token *)
(*        with tokenExpiresAt and Date.now() at the time it was set        *)
(*   signal : the abort signal of the fetch it awaits (None: no timeout)   *)
(*   queried : the feed has been queried                                   *)
(*   data : the parsed body of the feed's answer                           *)
(***************************************************************************)
TOKEN_MARGIN_MS == 60000

DEFAULT_EXPIRES_IN == 1800

FeedReqs == 1..MaxFeedReq

IdleFeedReq ==
  [pc |-> "idle", exchange |-> "none", auth |-> None, signal |-> None,
   queried |-> FALSE, data |-> None, resp |-> NoFeedResp]

\* fetch(OPENSKY_TOKEN_URL, { method, headers, body }): no signal
TokenFetchSignal == None

\* fetch(url.toString(), { headers, next }): no signal
FeedFetchSignal == None

\* variant: the cached token is used up to its expiry
TokenUsable_NoMargin(token, expiresAt, t) == token # None /\ t < expiresAt

\* cachedToken && Date.now() < tokenExpiresAt - 60_000
TokenUsable(token, expiresAt, t) == token # None /\ t < expiresAt - TOKEN_MARGIN_MS

\* the answers of the auth endpoint: access_token and expires_in (seconds)
TokenJsons ==
  { [access_token |-> Some("tokA"), expires_in |-> Some(1800)],
    [access_token |-> Some("tokB"), expires_in |-> None],
    [access_token |-> Some("tokA"), expires_in |-> Some(30)],
    [access_token |-> None, expires_in |-> Some(1800)] }

\* if (token) headers["Authorization"] = ...; then the feed is queried
QueryFeed(req, token, expiresAt, t) ==
  [req EXCEPT !.pc = "feed",
              !.auth = IF token # None
                       THEN Some([token |-> token[1], expiresAt |-> expiresAt, sentAt |-> t])
                       ELSE None,
              !.signal = FeedFetchSignal,
              !.queried = TRUE]

FeedReturn(req, resp) == [req EXCEPT !.pc = "done", !.resp = resp]

\* GET up to its first await
LiveStatesGet(r) ==
  /\ feedReqs[r].pc = "idle"
  /\ \A o \in FeedReqs : o < r => feedReqs[o].pc # "idle"
  /\ feedReqs' = [feedReqs EXCEPT ![r] =
       IF ~credentials THEN QueryFeed(@, None, tokenExpiresAt, feedNow)
       ELSE IF TokenUsable(cachedToken, tokenExpiresAt, feedNow)
         THEN QueryFeed(@, cachedToken, tokenExpiresAt, feedNow)
       ELSE [@ EXCEPT !.pc = "token", !.exchange = "pending",
                      !.signal = TokenFetchSignal]]
  /\ UNCHANGED << feedNow, feedTicks, credentials, cachedToken, tokenExpiresAt >>
  /\ UNCHANGED << resolverVars, pageVars, globeVars, panelVars >>

\* the auth endpoint answered with a success status and a JSON body
TokenOk(r, json) ==
  /\ feedReqs[r].pc = "token"
  /\ cachedToken' = json.access_token
  /\ tokenExpiresAt' =
       feedNow + (IF json.expires_in # None THEN json.expires_in[1]
                  ELSE DEFAULT_EXPIRES_IN) * 1000
  /\ feedReqs' = [feedReqs EXCEPT ![r] =
       QueryFeed([@ EXCEPT !.exchange = IF json.access_token # None THEN "ok"
                                        ELSE "notoken"],
                 cachedToken', tokenExpiresAt', feedNow)]
  /\ UNCHANGED << feedNow, feedTicks, credentials >>
  /\ UNCHANGED << resolverVars, pageVars, globeVars, panelVars >>

\* the auth endpoint answered with a non-success status
TokenNotOk(r) ==
  /\ feedReqs[r].pc = "token"
  /\ cachedToken' = None
  /\ feedReqs' = [feedReqs EXCEPT ![r] =
       QueryFeed([@ EXCEPT !.exchange = "notok"], None, tokenExpiresAt, feedNow)]
  /\ UNCHANGED << feedNow, feedTicks, credentials, tokenExpiresAt >>
  /\ UNCHANGED << resolverVars, pageVars, globeVars, panelVars >>

\* the exchange request rejected, or its body was not JSON: getAccessToken
\* throws outside the handler's try, and the framework answers 500
TokenThrows(r) ==
  /\ feedReqs[r].pc = "token"
  /\ feedReqs' = [feedReqs EXCEPT ![r] =
       FeedReturn([@ EXCEPT !.exchange = "threw"],
                  [status |-> 500, count |-> 0, flights |-> << >>,
                   error |-> "Internal Server Error"])]
  /\ UNCHANGED << feedNow, feedTicks, credentials, cachedToken, tokenExpiresAt >>
  /\ UNCHANGED << resolverVars, pageVars, globeVars, panelVars >>

\* the feed answered with a success status and an envelope
FeedAnswered(r, data) ==
  /\ feedReqs[r].pc = "feed"
  /\ feedReqs' = [feedReqs EXCEPT ![r] =
       FeedReturn([@ EXCEPT !.data = Some(data)], OnFeedBody(data))]
  /\ UNCHANGED << feedNow, feedTicks, credentials, cachedToken, tokenExpiresAt >>
  /\ UNCHANGED << resolverVars, pageVars, globeVars, panelVars >>

\* the feed answered with a non-success status
FeedNotOk(r, status) ==
  /\ feedReqs[r].pc = "feed"
  /\ feedReqs' = [feedReqs EXCEPT ![r] =
       FeedReturn(@, [status |-> status, count |-> 0, flights |-> << >>,
                      error |-> "OpenSky responded"])]
  /\ UNCHANGED << feedNow, feedTicks, credentials, cachedToken, tokenExpiresAt >>
  /\ UNCHANGED << resolverVars, pageVars, globeVars, panelVars >>

\* the feed request rejected, its body was not JSON, or the body was null
FeedThrows(r) ==
  /\ feedReqs[r].pc = "feed"
  /\ feedReqs' = [feedReqs EXCEPT ![r] = FeedReturn(@, FeedFailed)]
  /\ UNCHANGED << feedNow, feedTicks, credentials, cachedToken, tokenExpiresAt >>
  /\ UNCHANGED << resolverVars, pageVars, globeVars, panelVars >>

FeedTickSteps == {(DEFAULT_EXPIRES_IN * 1000 - TOKEN_MARGIN_MS) - 1, 1}

FeedTick(d) ==
  /\ feedTicks < MaxFeedTicks
  /\ feedNow' = feedNow + d
  /\ feedTicks' = feedTicks + 1
  /\ UNCHANGED << credentials, cachedToken, tokenExpiresAt, feedReqs >>
  /\ UNCHANGED << resolverVars, pageVars, globeVars, panelVars >>

\* the module state at load
FeedIdle ==
  /\ feedNow = 0
  /\ feedTicks = 0
  /\ cachedToken = None
  /\ tokenExpiresAt = 0
  /\ feedReqs = [r \in FeedReqs |-> IdleFeedReq]

FeedInit == FeedIdle /\ credentials \in BOOLEAN

FeedNext ==
  \/ \E r \in FeedReqs : LiveStatesGet(r)
  \/ \E r \in FeedReqs, json \in TokenJsons : TokenOk(r, json)
  \/ \E r \in FeedReqs : TokenNotOk(r)
  \/ \E r \in FeedReqs : TokenThrows(r)
  \/ \E r \in FeedReqs, data \in FeedBodies : FeedAnswered(r, data)
  \/ \E r \in FeedReqs, status \in {429} : FeedNotOk(r, status)
  \/ \E r \in FeedReqs : FeedThrows(r)
  \/ \E d \in FeedTickSteps : FeedTick(d)

(***************************************************************************)
(* The globe component's flight layer.  Latitudes, longitudes and headings *)
(* are fixed-point numbers in hundredths of a degree, altitudes of the     *)
(* globe in thousandths of its radius; a product with the smoothing        *)
(* factor is rounded to the nearest unit, as a double's is to the nearest  *)
(* representable number.  globe.objectsData is taken to digest at once,    *)
(* as the effect's comments say: every data object then has a mesh, placed *)
(* at the object's reported position.                                      *)
(***************************************************************************)
Abs(x) == IF x < 0 THEN -x ELSE x
Min(a, b) == IF a < b THEN a ELSE b
Max(a, b) == IF a > b THEN a ELSE b

\* x / m rounded to the nearest integer
RoundDiv(x, m) == (2 * x + m) \div (2 * m)

\* const lerpFactor = 0.06
lerpFactor == [num |-> 6, den |-> 100]

\* variant: the step is taken away from the target
Lerp_AwayFromTarget(current, target) ==
  current + RoundDiv((current - target) * lerpFactor.num, lerpFactor.den)

\* current += (target - current) * lerpFactor
Lerp(current, target) ==
  current + RoundDiv((target - current) * lerpFactor.num, lerpFactor.den)

MIN_VELOCITY == 30

PROJECTION_SECONDS == 1200

MAX_DIST_KM == 2500

\* a Flight as the globe reads it (velocity in m/s, altitude in m)
GlobeFlight(icao24, lat, lng, heading, velocity, onGround) ==
  [icao24 |-> icao24, lat |-> lat, lng |-> lng, heading |-> heading,
   velocity |-> velocity, onGround |-> onGround, altitude |-> 10000,
   originCountry |-> IF icao24 \in {"a1", "a3"} THEN "United States" ELSE "Germany"]

\* the flight lists of the model, all within a few hundredths of a degree:
\* a1 is reported at three positions, as in successive polls; a2 is slower
\* than MIN_VELOCITY, a3 rolls on the ground, a4 is as slow as an arc may be
A1_Start == GlobeFlight("a1", 0, 0, 0, 250, FALSE)
A1_Next == GlobeFlight("a1", 12, 10, 14, 250, FALSE)
A1_Back == GlobeFlight("a1", 3, -9, 2, 250, FALSE)
A2_Slow == GlobeFlight("a2", 4, -7, 9, 29, FALSE)
A3_Ground == GlobeFlight("a3", -6, 5, 18, 60, TRUE)
A4_Fast == GlobeFlight("a4", 8, -2, 45, 30, FALSE)

GlobeLists ==
  { << A1_Start, A2_Slow, A3_Ground, A4_Fast >>,
    << A1_Next, A2_Slow, A3_Ground >>,
    << A1_Back, A4_Fast >>,
    << A3_Ground >> }

Selectable == {A1_Start, A2_Slow, A3_Ground}

\* Math.max(0.01, Math.min((f.altitude || 0) / 100_000, 0.15))
AltOf(f) == Max(10, Min(f.altitude \div 100, 150))

NoAnim ==
  [currentLat |-> 0, currentLng |-> 0, currentHeading |-> 0,
   targetLat |-> 0, targetLng |-> 0, targetHeading |-> 0,
   altitude |-> 50, active |-> FALSE]

\* the transform of a mesh: where it is drawn and how it is turned
Transform(lat, lng, heading, altitude) ==
  [lat |-> lat, lng |-> lng, heading |-> heading, altitude |-> altitude]

\* flights.filter((f) => !f.onGround).map(...): the data objects by icao24,
\* each with the mesh the digest gives it
DataObjects(fs) ==
  LET shown == SelectSeq(fs, LAMBDA f : ~f.onGround)
      ids == {shown[i].icao24 : i \in 1..Len(shown)}
      of(id) == shown[CHOOSE i \in 1..Len(shown) :
                        /\ shown[i].icao24 = id
                        /\ \A j \in 1..Len(shown) : j > i => shown[j].icao24 # id]
  IN [id \in ids |->
        [lat |-> of(id).lat, lng |-> of(id).lng, heading |-> of(id).heading,
         altitude |-> AltOf(of(id)),
         mesh |-> Transform(of(id).lat, of(id).lng, of(id).heading, AltOf(of(id)))]]

\* variant: the interpolated position is set to the reported one on every run
Track_AlwaysSnap(anim, selData) ==
  [anim EXCEPT !.currentLat = selData.lat, !.currentLng = selData.lng,
               !.currentHeading = selData.heading,
               !.targetLat = selData.lat, !.targetLng = selData.lng,
               !.targetHeading = selData.heading,
               !.altitude = selData.altitude, !.active = TRUE]

\* variant: the first activation does not set the interpolated position
Track_NoSnap(anim, selData) ==
  [anim EXCEPT !.targetLat = selData.lat, !.targetLng = selData.lng,
               !.targetHeading = selData.heading,
               !.altitude = selData.altitude, !.active = TRUE]

\* the book-keeping for the selected flight's data object
Track(anim, selData) ==
  LET snapped == IF ~anim.active
                 THEN [anim EXCEPT !.currentLat = selData.lat,
                                   !.currentLng = selData.lng,
                                   !.currentHeading = selData.heading]
                 ELSE anim
  IN [snapped EXCEPT !.targetLat = selData.lat, !.targetLng = selData.lng,
                     !.targetHeading = selData.heading,
                     !.altitude = selData.altitude, !.active = TRUE]

\* variant: a cleared selection leaves the interpolator as it is
UpdatePositions_KeepsActive(anim, fs, selected) ==
  LET nextMap == DataObjects(fs)
      tracked == selected # "" /\ selected \in DOMAIN nextMap
      anim1 == IF tracked THEN Track(anim, nextMap[selected]) ELSE anim
      objs == IF tracked /\ anim.active
              THEN [nextMap EXCEPT ![selected].mesh =
                      Transform(anim.currentLat, anim.currentLng,
                                anim.currentHeading, anim1.altitude)]
              ELSE nextMap
  IN [selAnim |-> anim1, flightObjs |-> objs]

\* the flight positions effect: the new selAnim and flight objects
UpdatePositions(anim, fs, selected) ==
  LET nextMap == DataObjects(fs)
      tracked == selected # "" /\ selected \in DOMAIN nextMap
      anim1 == IF selected = "" THEN [anim EXCEPT !.active = FALSE]
               ELSE IF tracked THEN Track(anim, nextMap[selected])
               ELSE anim
      \* savedPos, taken before the digest, put back on the mesh after it
      objs == IF tracked /\ anim.active
              THEN [nextMap EXCEPT ![selected].mesh =
                      Transform(anim.currentLat, anim.currentLng,
                                anim.currentHeading, anim1.altitude)]
              ELSE nextMap
  IN [selAnim |-> anim1, flightObjs |-> objs]

\* variant: aircraft on the ground get an arc too
SkipsArc_IgnoresGround(f, selected, route) ==
  \/ f.velocity = 0 \/ f.velocity < MIN_VELOCITY
  \/ (f.icao24 = selected /\ route # None)
  \/ Min((f.velocity * PROJECTION_SECONDS) \div 1000, MAX_DIST_KM) < 10

\* the three continue statements of the heading arcs loop
SkipsArc(f, selected, route) ==
  \/ f.onGround \/ f.velocity = 0 \/ f.velocity < MIN_VELOCITY
  \/ (f.icao24 = selected /\ route # None)
  \/ Min((f.velocity * PROJECTION_SECONDS) \div 1000, MAX_DIST_KM) < 10

\* the heading arcs effect: the arcs added to the group, in the flights' order
HeadingArcs(fs, selected, route) ==
  LET drawn == SelectSeq(fs, LAMBDA f : ~SkipsArc(f, selected, route))
  IN [i \in 1..Len(drawn) |->
        [icao24 |-> drawn[i].icao24, isSelected |-> drawn[i].icao24 = selected]]

\* a coordinate of a route as the globe reads it
Num(n) == [k |-> "number", n |-> n]
NaN == [k |-> "NaN", n |-> 0]
Infinity == [k |-> "Infinity", n |-> 0]
isFinite(x) == x.k = "number"
IsZero(x) == x.k = "number" /\ x.n = 0

\* the fields of a FlightRoute that the globe reads
FlightRouteProp(r) ==
  [departureLat |-> Num(r.departureLat), departureLng |-> Num(r.departureLng),
   arrivalLat |-> Num(r.arrivalLat), arrivalLng |-> Num(r.arrivalLng)]

\* a route between two registry airports
ResolvedRoute ==
  FlightRouteProp(buildRoute(<< "D","A","L","1" >>, "JFK", "LAX", AirportsJson,
                             NoStructured))

\* a route whose arrival code is not in the registry
HalfResolvedRoute ==
  FlightRouteProp(buildRoute(<< "D","A","L","1" >>, "JFK", "ZZZ", AirportsJson,
                             NoStructured))

\* the routes of the model: resolved; with an arrival code the registry
\* does not hold; with a coordinate that is not finite; departing from the
\* equator
GlobeRoutes ==
  { ResolvedRoute, HalfResolvedRoute,
    [ResolvedRoute EXCEPT !.arrivalLng = NaN],
    [ResolvedRoute EXCEPT !.departureLat = Infinity],
    [ResolvedRoute EXCEPT !.departureLat = Num(0)] }

\* variant: only the departure is tested for (0,0)
SkipsRouteArc_DepartureOnly(r) ==
  \/ (IsZero(r.departureLat) /\ IsZero(r.departureLng))
  \/ ~isFinite(r.departureLat) \/ ~isFinite(r.departureLng)
  \/ ~isFinite(r.arrivalLat) \/ ~isFinite(r.arrivalLng)

\* the validation of the four coordinates in the route arc effect
SkipsRouteArc(r) ==
  \/ (IsZero(r.departureLat) /\ IsZero(r.departureLng))
  \/ (IsZero(r.arrivalLat) /\ IsZero(r.arrivalLng))
  \/ ~isFinite(r.departureLat) \/ ~isFinite(r.departureLng)
  \/ ~isFinite(r.arrivalLat) \/ ~isFinite(r.arrivalLng)

\* the route arc effect: the children of the route group, None when it is
\* left empty; the arc by its first (t = 0) and last (t = 1) sample
RouteArc(route) ==
  IF route = None \/ SkipsRouteArc(route[1]) THEN None
  ELSE LET dep == [lat |-> route[1].departureLat.n, lng |-> route[1].departureLng.n]
           arr == [lat |-> route[1].arrivalLat.n, lng |-> route[1].arrivalLng.n]
       IN Some([first |-> dep, last |-> arr, markers |-> << dep, arr >>])

\* the changes of the flight list and of the selection and the rebuilds so far
Changes == refreshes + selections + rebuilds

\* the effects that follow a change of the props
RunEffects(p) ==
  LET u == UpdatePositions(selAnim, p.flights, p.selectedFlightIcao) IN
  /\ props' = p
  /\ selAnim' = u.selAnim
  /\ flightObjs' = u.flightObjs
  /\ flightArcs' = HeadingArcs(p.flights, p.selectedFlightIcao, p.flightRoute)
  /\ routeArc' = RouteArc(p.flightRoute)

\* a new flight list arrives
FlightsChange(list) ==
  /\ refreshes < MaxRefresh /\ Changes < MaxChanges
  /\ list # props.flights
  /\ refreshes' = refreshes + 1
  /\ RunEffects([props EXCEPT !.flights = list])
  /\ UNCHANGED << selections, rebuilds >>
  /\ UNCHANGED << resolverVars, pageVars, feedVars, panelVars >>

\* handleSelectFlight(f) seen from the globe: f is selected and is the last
\* of the flight list, and the route is cleared
SelectionChange(f) ==
  /\ selections < MaxSelect /\ Changes < MaxChanges
  /\ f.icao24 # props.selectedFlightIcao
  /\ selections' = selections + 1
  /\ RunEffects([flights |-> Append(SelectSeq(props.flights,
                                               LAMBDA g : g.icao24 # f.icao24), f),
                 selectedFlightIcao |-> f.icao24,
                 flightRoute |-> None])
  /\ UNCHANGED << refreshes, rebuilds >>
  /\ UNCHANGED << resolverVars, pageVars, feedVars, panelVars >>

\* handleSelectFlight(null) seen from the globe
SelectionCleared ==
  /\ selections < MaxSelect /\ Changes < MaxChanges
  /\ props.selectedFlightIcao # ""
  /\ selections' = selections + 1
  /\ RunEffects([props EXCEPT !.selectedFlightIcao = "", !.flightRoute = None])
  /\ UNCHANGED << refreshes, rebuilds >>
  /\ UNCHANGED << resolverVars, pageVars, feedVars, panelVars >>

\* the route of the selected flight arrives
RouteChange(route) ==
  /\ props.selectedFlightIcao # ""
  /\ props.flightRoute = None
  /\ props' = [props EXCEPT !.flightRoute = Some(route)]
  /\ flightArcs' = HeadingArcs(props'.flights, props'.selectedFlightIcao,
                               props'.flightRoute)
  /\ routeArc' = RouteArc(props'.flightRoute)
  /\ UNCHANGED << selAnim, flightObjs, refreshes, selections, rebuilds >>
  /\ UNCHANGED << resolverVars, pageVars, feedVars, panelVars >>

\* useFrame: one animation tick of the flight layer
Frame ==
  LET sel == props.selectedFlightIcao
      anim == [selAnim EXCEPT
                 !.currentLat = Lerp(selAnim.currentLat, selAnim.targetLat),
                 !.currentLng = Lerp(selAnim.currentLng, selAnim.targetLng),
                 !.currentHeading = Lerp(selAnim.currentHeading, selAnim.targetHeading)]
  IN
  /\ sel # "" /\ selAnim.active
  /\ selAnim' = anim
  /\ flightObjs' =
       IF sel \in DOMAIN flightObjs
       THEN [flightObjs EXCEPT ![sel].mesh =
               Transform(anim.currentLat, anim.currentLng, anim.currentHeading,
                         anim.altitude)]
       ELSE flightObjs
  /\ UNCHANGED << props, flightArcs, routeArc, refreshes, selections, rebuilds >>
  /\ UNCHANGED << resolverVars, pageVars, feedVars, panelVars >>

\* the globe is built again (the coordinates prop changed): new arc groups,
\* the flight refs reset, and the effects that depend on globeEpoch re-run
GlobeRebuilt ==
  /\ rebuilds < MaxRebuild /\ Changes < MaxChanges
  /\ rebuilds' = rebuilds + 1
  /\ flightObjs' = [id \in {} |-> 0]
  /\ selAnim' = [selAnim EXCEPT !.active = FALSE]
  /\ flightArcs' = << >>
  /\ routeArc' = RouteArc(props.flightRoute)
  /\ UNCHANGED << props, refreshes, selections >>
  /\ UNCHANGED << resolverVars, pageVars, feedVars, panelVars >>

GlobeIdle ==
  /\ props = [flights |-> << >>, selectedFlightIcao |-> "", flightRoute |-> None]
  /\ selAnim = NoAnim
  /\ flightObjs = [id \in {} |-> 0]
  /\ flightArcs = << >>
  /\ routeArc = None
  /\ refreshes = 0
  /\ selections = 0
  /\ rebuilds = 0

PanelIdle ==
  /\ panelFlights = << >>
  /\ countryFilter = None

GlobeNext ==
  \/ \E list \in GlobeLists : FlightsChange(list)
  \/ \E f \in Selectable : SelectionChange(f)
  \/ SelectionCleared
  \/ \E route \in GlobeRoutes : RouteChange(route)
  \/ Frame
  \/ GlobeRebuilt

(***************************************************************************)
(* The page with the flights panel and the globe: the page hands its       *)
(* flights to the panel, the panel reports the flights its filter lets     *)
(* through, and the page hands globeFlights to the globe.  The panel's     *)
(* text filter acts on `visible` as the country chip does and is left      *)
(* empty.  A handler and the renders and effects it causes are one step.   *)
(***************************************************************************)
CountryFilters == {None, Some("Germany")}

\* visible: the flights the filter lets through
Visible(fs, cf) == SelectSeq(fs, LAMBDA f : cf = None \/ f.originCountry = cf[1])

\* arr.find((f) => f.icao24 === id): None or Some(the first match)
Find(arr, id) ==
  LET hits == SelectSeq(arr, LAMBDA f : f.icao24 = id)
  IN IF hits = << >> THEN None ELSE Some(hits[1])

\* the updater of setGlobeFlights in handleVisibleFlightsChange
handleVisibleFlightsChange(prev, visible, hasFilter, selected) ==
  LET base == IF hasFilter THEN visible ELSE << >>
      fresh == IF Find(visible, selected) # None THEN Find(visible, selected)
               ELSE Find(prev, selected)
  IN IF selected # "" /\ Find(base, selected) = None /\ fresh # None
     THEN Append(base, fresh[1])
     ELSE base

\* the props after the panel's effect has reported its visible flights
Reported(p, fs, cf) ==
  [p EXCEPT !.flights = handleVisibleFlightsChange(p.flights, Visible(fs, cf),
                                                    cf # None, p.selectedFlightIcao)]

\* two renders of the globe in a row: the effects of the first, then those
\* of the second
RunEffectsTwice(p1, p2) ==
  LET u1 == UpdatePositions(selAnim, p1.flights, p1.selectedFlightIcao)
      u2 == UpdatePositions(u1.selAnim, p2.flights, p2.selectedFlightIcao)
  IN
  /\ props' = p2
  /\ selAnim' = u2.selAnim
  /\ flightObjs' = u2.flightObjs
  /\ flightArcs' = HeadingArcs(p2.flights, p2.selectedFlightIcao, p2.flightRoute)
  /\ routeArc' = RouteArc(p2.flightRoute)

\* a poll returns: setFlights(data.flights)
PollArrives(list) ==
  /\ refreshes < MaxRefresh /\ Changes < MaxChanges
  /\ list # panelFlights
  /\ refreshes' = refreshes + 1
  /\ panelFlights' = list
  /\ RunEffects(Reported(props, list, countryFilter))
  /\ UNCHANGED << countryFilter, selections, rebuilds >>
  /\ UNCHANGED << resolverVars, pageVars, feedVars >>

\* the user picks or clears a country chip
FilterChanges(cf) ==
  /\ cf # countryFilter
  /\ countryFilter' = cf
  /\ RunEffects(Reported(props, panelFlights, cf))
  /\ UNCHANGED << panelFlights, refreshes, selections, rebuilds >>
  /\ UNCHANGED << resolverVars, pageVars, feedVars >>

\* the user clicks a row of the panel that is not the selected one:
\* handleSelectFlight(f), then the panel's effect with the new callback
PanelSelect(f) ==
  LET p1 == [flights |-> Append(SelectSeq(props.flights,
                                          LAMBDA g : g.icao24 # f.icao24), f),
             selectedFlightIcao |-> f.icao24,
             flightRoute |-> None]
  IN
  /\ selections < MaxSelect /\ Changes < MaxChanges
  /\ Find(Visible(panelFlights, countryFilter), f.icao24) = Some(f)
  /\ f.icao24 # props.selectedFlightIcao
  /\ selections' = selections + 1
  /\ RunEffectsTwice(p1, Reported(p1, panelFlights, countryFilter))
  /\ UNCHANGED << panelFlights, countryFilter, refreshes, rebuilds >>
  /\ UNCHANGED << resolverVars, pageVars, feedVars >>

\* the user clicks the selected row: handleSelectFlight(null), then the
\* panel's effect with the new callback
PanelDeselect ==
  LET p1 == [props EXCEPT !.selectedFlightIcao = "", !.flightRoute = None] IN
  /\ selections < MaxSelect /\ Changes < MaxChanges
  /\ props.selectedFlightIcao # ""
  /\ Find(Visible(panelFlights, countryFilter), props.selectedFlightIcao) # None
  /\ selections' = selections + 1
  /\ RunEffectsTwice(p1, Reported(p1, panelFlights, countryFilter))
  /\ UNCHANGED << panelFlights, countryFilter, refreshes, rebuilds >>
  /\ UNCHANGED << resolverVars, pageVars, feedVars >>

PanelNext ==
  \/ \E list \in GlobeLists : PollArrives(list)
  \/ \E cf \in CountryFilters : FilterChanges(cf)
  \/ \E f \in {A1_Start, A1_Next, A1_Back, A2_Slow, A3_Ground, A4_Fast} : PanelSelect(f)
  \/ PanelDeselect
  \/ \E route \in {ResolvedRoute, HalfResolvedRoute} : RouteChange(route)
  \/ Frame
  \/ GlobeRebuilt

(***************************************************************************)
(* Specifications: the resolver with its caller, the page, the live-state  *)
(* proxy, the globe's flight layer, the page with the panel and the globe.  *)
(***************************************************************************)
Init == ResolverInit /\ PageInit /\ FeedIdle /\ credentials = FALSE /\ GlobeIdle /\ PanelIdle

SpecResolver == Init /\ [][ResolverNext]_vars

SpecPage == Init /\ [][PageNext]_vars

InitFeed == FeedInit /\ ResolverInit /\ apiKey /\ PageInit /\ GlobeIdle /\ PanelIdle

SpecFeed == InitFeed /\ [][FeedNext]_vars

InitGlobe == GlobeIdle /\ PanelIdle /\ ResolverInit /\ apiKey /\ PageInit /\ FeedIdle /\ credentials = FALSE

SpecGlobe == InitGlobe /\ [][GlobeNext]_vars

SpecPanel == InitGlobe /\ [][PanelNext]_vars

(***************************************************************************)
(* Properties of the resolver.                                             *)
(***************************************************************************)
\* the response a request for raw would get if it came now
CallNow(raw) == StartRequest(IdleReq, raw, now, cache, airportDb, apiKey)

CacheDelete(map, key) == [k \in DOMAIN map \ {key} |-> map[k]]

Count(log, ev) == Cardinality({i \in 1..Len(log) : log[i] = ev})
LastOf(log) == IF log = << >> THEN "" ELSE log[Len(log)]

InRegistry(route) ==
  /\ route.departureAirport \in DOMAIN AirportsJson
  /\ route.arrivalAirport \in DOMAIN AirportsJson

\* C1 (as claimed): once a route is stored for a callsign at time t (its entry
\* expires at t + 6h), a request for that callsign that comes at any later
\* moment before t + 6h is answered at once, without any external call, with
\* cached = true and that very route.
C1_Original ==
  [][\A raw \in RawCallsigns :
       LET key == CacheKey(raw) IN
       (key \in DOMAIN cache /\ now' < cache[key].expiresAt) =>
         LET res == StartRequest(IdleReq, raw, now', cache', airportDb', apiKey') IN
         /\ res.pc = "done"
         /\ res.log = << >>
         /\ res.resp.status = 200
         /\ res.resp.cached
         /\ res.resp.route = cache[key].route]_resolverVars

\* C2: an entry whose expiry has been reached (now >= expiresAt) is treated
\* exactly as an absent entry: a request that comes then gets what it would get
\* from a cache without the entry, is never answered with cached = true, and
\* runs the strategy chain.
C2_ExpiredIsMiss ==
  /\ \A raw \in RawCallsigns :
       LET key == CacheKey(raw) IN
       Expired(cache, key, now) =>
         /\ CallNow(raw) =
              StartRequest(IdleReq, raw, now, CacheDelete(cache, key), airportDb, apiKey)
         /\ ~CallNow(raw).resp.cached
         /\ CallNow(raw).pc \in {"registry", "search", "page"}
  /\ \A r \in InFlight : reqs[r].sawExpired => reqs[r].log # << >>
  /\ last.sawExpired =>
       /\ ~last.resp.cached
       /\ last.via # "cache"
       /\ LastOf(last.log) \in {"Aok", "Bok", "page"}

\* a request that found an expired entry has run the chain and returned a
\* freshly resolved route
C2_Witness ==
  /\ last.sawExpired
  /\ last.resp.status = 200
  /\ ~last.resp.cached
  /\ last.log # << >>

\* C3: a request that ends in the not-found response has attempted the page
\* fetch and leaves the cache as it was: no entry is created for its callsign,
\* so the same request sent again starts the chain again.
C3_NotFoundCachesNothing ==
  [][\A r \in Reqs :
       (reqs[r].pc # "done" /\ reqs'[r].pc = "done" /\ last'.resp.status = 404) =>
         /\ cache' = cache
         /\ LastOf(last'.log) = "page"
         /\ (last'.cacheKey \notin DOMAIN cache =>
               \A raw \in RawCallsigns :
                 CacheKey(raw) = last'.cacheKey =>
                   StartRequest(IdleReq, raw, now', cache', airportDb', apiKey').pc
                     \in {"search", "page"})]_resolverVars

\* a request for a callsign that has no cache entry came back not found
C3_Witness ==
  /\ last.resp.status = 404
  /\ last.cacheKey \notin DOMAIN cache
  /\ LastOf(last.log) = "page"

\* C4: in every resolution the strategies run in the order A, B, C.  A runs on
\* a payload a search query returned, B runs on that payload right after A has
\* failed, and the page fetch is the last call: it is issued once, only after
\* every payload received has failed A and then B, and, when a search
\* credential is configured, only after a query was sent.  A resolution that
\* has no route from A or B always goes on to the page fetch.
StrategyOrder(log, hasKey) ==
  /\ \A i \in 1..Len(log) :
       /\ log[i] \in {"Aok", "Afail"} => i > 1 /\ log[i-1] = "query"
       /\ log[i] \in {"Bok", "Bfail"} => i > 1 /\ log[i-1] = "Afail"
       /\ log[i] = "Afail" => i < Len(log) /\ log[i+1] \in {"Bok", "Bfail"}
       /\ log[i] = "page" =>
            /\ i = Len(log)
            /\ Count(log, "Aok") = 0 /\ Count(log, "Bok") = 0
            /\ hasKey => Count(log, "query") >= 1
       /\ log[i] = "query" => hasKey
  /\ LastOf(log) \notin {"Afail", "Bfail", "notok", "throw"}

C5_Original ==
  /\ \A r \in InFlight : Count(reqs[r].log, "query") <= 1
  /\ Count(last.log, "query") <= 1

\* C6 (as claimed): every route returned or held in the cache has both its
\* airports in the registry.
C6_Original ==
  /\ last.resp.status = 200 => InRegistry(last.resp.route)
  /\ \A key \in DOMAIN cache : InRegistry(cache[key].route)

\* C6 (amended): a route produced by strategy B or strategy C has both its
\* airports in the registry; a route produced by strategy A carries the codes
\* of the structured data as they came, and an endpoint whose code the
\* request's registry does not hold has the coordinates (0, 0).
C6_ValidatedExceptStructured ==
  /\ last.via \in {"B", "C"} => last.resp.status = 200 /\ InRegistry(last.resp.route)
  /\ last.via = "A" =>
       LET route == last.resp.route IN
       /\ Truthy(route.departureAirport) /\ Truthy(route.arrivalAirport)
       /\ route.departureAirport \notin DOMAIN AirportsJson =>
            route.departureLat = 0 /\ route.departureLng = 0
       /\ route.arrivalAirport \notin DOMAIN AirportsJson =>
            route.arrivalLat = 0 /\ route.arrivalLng = 0

\* organic parsing produced a route after discarding a pair that did not validate
C6_Witness ==
  /\ last.via = "B"
  /\ last.resp.status = 200
  /\ InRegistry(last.resp.route)
  /\ last.cacheKey \in DOMAIN cache

\* C9 (as claimed): no step of a request that the caller has aborted changes
\* the cache.
C9_Original ==
  [][\A r \in Reqs :
       (reqs[r].aborted /\ reqs'[r] # reqs[r]) => cache' = cache]_resolverVars

(***************************************************************************)
(* Properties of the page.                                                 *)
(***************************************************************************)
Pending == {i \in Fetches : fetches[i].state = "pending"}

SelectedCallsign ==
  IF \E f \in Aircraft : f.icao24 = selectedFlightIcao
  THEN (CHOOSE f \in Aircraft : f.icao24 = selectedFlightIcao).callsign
  ELSE << >>

\* C7 (as claimed): at most one route fetch is pending; a pending fetch was
\* started for the aircraft that is selected now; and a route that is shown
\* is the route of the selected aircraft's callsign.
C7_Original ==
  /\ Cardinality(Pending) <= 1
  /\ \A i \in Pending : fetches[i].icao24 = selectedFlightIcao
  /\ flightRoute # None =>
       /\ selectedFlightIcao # ""
       /\ flightRoute[1].callsign = Str(Clean(SelectedCallsign))

\* C8 (as claimed): when the rejection of an aborted route fetch is handled,
\* flightRoute, flightRouteError and flightRouteLoading stay as they are.
C8_Original ==
  [][\A i \in Fetches :
       (fetches[i].state = "aborted" /\ fetches'[i].state = "done") =>
         /\ flightRoute' = flightRoute
         /\ flightRouteError' = flightRouteError
         /\ flightRouteLoading' = flightRouteLoading]_pageVars

\* C10 (as claimed): while tracking is enabled at most one feed refresh is in
\* flight.
C10_Original == flightsEnabled => polls <= 1

(***************************************************************************)
(* Properties of the live-state proxy.                                     *)
(***************************************************************************)
\* the requests the feed answered with an envelope
Answered == {r \in FeedReqs : feedReqs[r].pc = "done" /\ feedReqs[r].data # None}

StatesOf(r) == feedReqs[r].data[1].states

\* the entry has a latitude (index 6) and a longitude (index 5), neither null
PositionPresent(s) ==
  /\ Len(s) >= 7
  /\ s[7].k \notin {"null", "undefined"}
  /\ s[6].k \notin {"null", "undefined"}

\* C11: the flights of a response are the entries of the feed's state list
\* that have both a latitude and a longitude, all of them, in the feed's order.
C11_NormalizedIsSubsequence ==
  \A r \in Answered :
    StatesOf(r).k = "array" =>
      LET kept == SelectSeq(StatesOf(r).a, PositionPresent)
          out == feedReqs[r].resp.flights
      IN /\ Len(out) = Len(kept)
         /\ feedReqs[r].resp.count = Len(kept)
         /\ \A i \in 1..Len(kept) :
              /\ out[i].icao24 = Str(kept[i][1].s)
              /\ out[i].lat = kept[i][7].n
              /\ out[i].lng = kept[i][6].n

\* a feed with entries without longitude, without latitude and cut short, and
\* with an entry at (0, 0), has been normalised: two flights are left
C11_Witness ==
  \E r \in Answered :
    /\ StatesOf(r) = JArray(<< NoLng, AtZero, Short, Airborne >>)
    /\ feedReqs[r].resp.count = 2
    /\ feedReqs[r].resp.flights[1].lat = 0

\* C17 (as claimed): a request whose token exchange failed, by a non-success
\* answer or by the exchange request throwing, goes on to query the feed
\* without an Authorization header.
C17_Original ==
  \A r \in FeedReqs :
    feedReqs[r].exchange \in {"notok", "threw"} =>
      /\ feedReqs[r].queried
      /\ feedReqs[r].auth = None
      /\ feedReqs[r].pc = "done" => feedReqs[r].resp.status # 500

\* C18 (as claimed): every external call a live-state request awaits is
\* bounded by a timeout.
C18_Original ==
  \A r \in FeedReqs :
    feedReqs[r].pc \in {"token", "feed"} => feedReqs[r].signal # None

\* a live-state request starts in this step
Starts(r) == feedReqs[r].pc = "idle" /\ feedReqs'[r].pc # "idle"

\* the request's Authorization header is set in this step
SetsAuth(r) == feedReqs[r].auth = None /\ feedReqs'[r].auth # None

\* C19 (as claimed): with credentials, a request starts without an exchange
\* exactly when a token is cached and now < its expiry - 60 s; after a failed
\* exchange the cache holds nothing a next request would reuse; and no token
\* is sent at or after 60 s before its stated expiry.
C19_Original ==
  [][\A r \in FeedReqs :
       /\ (Starts(r) /\ credentials) =>
            ((feedReqs'[r].exchange = "none")
               <=> (cachedToken # None /\ feedNow < tokenExpiresAt - 60000))
       /\ (feedReqs[r].exchange = "pending"
             /\ feedReqs'[r].exchange \in {"notok", "threw"}) =>
            ~(cachedToken' # None /\ feedNow' < tokenExpiresAt' - 60000)
       /\ SetsAuth(r) =>
            feedReqs'[r].auth[1].sentAt < feedReqs'[r].auth[1].expiresAt - 60000
    ]_feedVars

\* C19 (amended): with credentials, a request starts without an exchange
\* exactly when a token is cached and now < its expiry - 60 s, and it then
\* sends the cached token; an exchange answered with a non-success status
\* empties the cache; a token taken from the cache is never sent at or after
\* 60 s before its stated expiry.
C19_ReuseWithMargin ==
  [][\A r \in FeedReqs :
       /\ (Starts(r) /\ credentials) =>
            /\ (feedReqs'[r].exchange = "none")
                 <=> (cachedToken # None /\ feedNow < tokenExpiresAt - 60000)
            /\ feedReqs'[r].exchange = "none" =>
                 /\ feedReqs'[r].auth # None
                 /\ feedReqs'[r].auth[1].token = cachedToken[1]
                 /\ feedReqs'[r].auth[1].sentAt < feedReqs'[r].auth[1].expiresAt - 60000
       /\ (feedReqs[r].exchange = "pending" /\ feedReqs'[r].exchange = "notok") =>
            cachedToken' = None
    ]_feedVars

\* a cached token has been reused in the last millisecond before the margin
C19_Witness ==
  \E r \in FeedReqs :
    /\ feedReqs[r].exchange = "none"
    /\ feedReqs[r].auth # None
    /\ feedReqs[r].auth[1].sentAt = feedReqs[r].auth[1].expiresAt - 60000 - 1

\* C20: an envelope whose state list is absent, null or not an array is
\* answered with status 200, count 0 and no flights.
C20_NoStateListIsEmpty ==
  \A r \in Answered :
    StatesOf(r).k # "array" =>
      /\ feedReqs[r].resp.status = 200
      /\ feedReqs[r].resp.count = 0
      /\ feedReqs[r].resp.flights = << >>

\* envelopes with a null, an absent and a string state list have been answered
C20_Witness ==
  /\ \E r \in Answered : StatesOf(r).k = "null"
  /\ \E r \in Answered : StatesOf(r).k \in {"undefined", "string"}

(***************************************************************************)
(* Further properties of the resolver.                                     *)
(***************************************************************************)
\* C15: for every prefix of the carrier code table, the reverse map gives
\* the prefix back for the prefix's code; so it does for the prefix and code
\* parseCallsign finds for the callsign of a request.
C15_RoundTrip ==
  /\ \A icao \in DOMAIN ICAO_TO_IATA :
       Lookup(IATA_TO_ICAO, ICAO_TO_IATA[icao]) = icao
  /\ \A r \in Reqs :
       LET p == parseCallsign(reqs[r].callsign) IN
       p.iataCode # "" => Lookup(IATA_TO_ICAO, p.iataCode) = p.icaoPrefix

\* a request for DAL1950 is in flight: its prefix DAL has the code DL
C15_Witness ==
  \E r \in InFlight :
    /\ parseCallsign(reqs[r].callsign).icaoPrefix = "DAL"
    /\ parseCallsign(reqs[r].callsign).iataCode = "DL"
    /\ Len(reqs[r].queries) = 3

\* the events of a log that are failures of a source or of a strategy
Failures == {"notok", "throw", "Afail", "Bfail"}

\* C16: a failure of the registry load, of a search query or of strategy A or
\* B never ends a request: the request goes on to its next external call.
\* The only error a request with a callsign is answered with is 404, and
\* only after the page fetch.
C16_FailuresRecovered ==
  /\ \A r \in Reqs :
       (reqs[r].log # << >> /\ LastOf(reqs[r].log) \in Failures) =>
         reqs[r].pc \in {"search", "page"}
  /\ last.resp.status \in {0, 200, 400, 404}
  /\ last.resp.status = 400 => last.cacheKey = ""
  /\ last.resp.status = 404 => LastOf(last.log) = "page"
  /\ last.resp.status = 200 =>
       (last.via = "cache" \/ LastOf(last.log) \in {"Aok", "Bok", "page"})

\* the registry failed to load, a query got a non-success answer, the next
\* query threw, the page fetch failed: the request was answered 404
C16_Witness ==
  /\ airportDb = Some(EmptyDb)
  /\ last.resp.status = 404
  /\ last.log = << "registry", "query", "notok", "query", "throw", "page" >>

(***************************************************************************)
(* Properties of the globe's flight layer.                                 *)
(***************************************************************************)
HasArc(id) == \E i \in 1..Len(flightArcs) : flightArcs[i].icao24 = id

FlightsOf(p) == {p.flights[i] : i \in 1..Len(p.flights)}

\* C12: a flight that is on the ground or slower than 30 m/s has no
\* predictive arc, whatever its other fields and whether or not it is the
\* selected aircraft.
C12_NoArcOnGroundOrSlow ==
  \A f \in FlightsOf(props) :
    (f.onGround \/ f.velocity < 30) => ~HasArc(f.icao24)

\* the selected aircraft is on the ground, a slow one is listed, and the
\* flights that are fast enough have their arcs
C12_Witness ==
  /\ props.selectedFlightIcao = A3_Ground.icao24
  /\ A3_Ground \in FlightsOf(props) /\ A2_Slow \in FlightsOf(props)
  /\ HasArc(A4_Fast.icao24)
  /\ Len(flightArcs) = 2

\* one tick moved `current` to `next` under the target `target`: no further
\* from it, not past it, and closer by the smoothing factor up to half a unit
Approaches(current, next, target) ==
  /\ Abs(target - next) <= Abs(target - current)
  /\ (target - next) * (target - current) >= 0
  /\ lerpFactor.den * Abs(target - next)
       <= (lerpFactor.den - lerpFactor.num) * Abs(target - current)
            + lerpFactor.den \div 2

\* C13: an animation tick leaves the target alone and brings each of lat,
\* lng and heading no further from its target and never past it, the
\* distance shrinking by the smoothing factor until it is within the
\* resolution of the numbers.
C13_TickApproachesTarget ==
  [][(props' = props /\ rebuilds' = rebuilds /\ selAnim' # selAnim) =>
       /\ selAnim'.targetLat = selAnim.targetLat
       /\ selAnim'.targetLng = selAnim.targetLng
       /\ selAnim'.targetHeading = selAnim.targetHeading
       /\ Approaches(selAnim.currentLat, selAnim'.currentLat, selAnim.targetLat)
       /\ Approaches(selAnim.currentLng, selAnim'.currentLng, selAnim.targetLng)
       /\ Approaches(selAnim.currentHeading, selAnim'.currentHeading,
                     selAnim.targetHeading)]_vars

\* the ticks have taken a1 from its first position to rest just short of
\* its second one
C13_Witness ==
  /\ selAnim.active /\ props.selectedFlightIcao = A1_Next.icao24
  /\ selAnim.targetLat = A1_Next.lat /\ selAnim.targetLng = A1_Next.lng
  /\ selAnim.targetHeading = A1_Next.heading
  /\ A1_Start.lat < selAnim.currentLat /\ selAnim.currentLat < A1_Next.lat
  /\ A1_Start.lng < selAnim.currentLng /\ selAnim.currentLng < A1_Next.lng
  /\ A1_Start.heading < selAnim.currentHeading
  /\ selAnim.currentHeading < A1_Next.heading
  /\ Lerp(selAnim.currentLat, selAnim.targetLat) = selAnim.currentLat
  /\ Lerp(selAnim.currentLng, selAnim.targetLng) = selAnim.currentLng
  /\ Lerp(selAnim.currentHeading, selAnim.targetHeading) = selAnim.currentHeading

\* C14: a new flight list that arrives while the interpolator is active
\* leaves current lat, lng and heading unchanged; when it lists the selected
\* aircraft as airborne, the target and the altitude become the reported
\* ones and the aircraft is drawn at the position interpolated before the
\* refresh.
C14_RefreshKeepsCurrent ==
  [][(/\ props'.flights # props.flights
      /\ props'.selectedFlightIcao = props.selectedFlightIcao
      /\ props.selectedFlightIcao # ""
      /\ selAnim.active) =>
       LET sel == props.selectedFlightIcao IN
       /\ selAnim'.currentLat = selAnim.currentLat
       /\ selAnim'.currentLng = selAnim.currentLng
       /\ selAnim'.currentHeading = selAnim.currentHeading
       /\ sel \in DOMAIN flightObjs' =>
            /\ selAnim'.targetLat = flightObjs'[sel].lat
            /\ selAnim'.targetLng = flightObjs'[sel].lng
            /\ selAnim'.targetHeading = flightObjs'[sel].heading
            /\ selAnim'.altitude = flightObjs'[sel].altitude
            /\ flightObjs'[sel].mesh =
                 Transform(selAnim.currentLat, selAnim.currentLng,
                           selAnim.currentHeading, flightObjs'[sel].altitude)]_vars

\* a1 rested between its first and second position when its third one was
\* reported: it is drawn where it rested, and heads for the third
C14_Witness ==
  LET sel == props.selectedFlightIcao IN
  /\ selAnim.active /\ sel = A1_Back.icao24 /\ sel \in DOMAIN flightObjs
  /\ refreshes = 2
  /\ flightObjs[sel].lat = A1_Back.lat /\ selAnim.targetLat = A1_Back.lat
  /\ selAnim.targetLng = A1_Back.lng /\ selAnim.targetHeading = A1_Back.heading
  /\ Lerp(selAnim.currentLat, A1_Next.lat) = selAnim.currentLat
  /\ Lerp(selAnim.currentLng, A1_Next.lng) = selAnim.currentLng
  /\ Lerp(selAnim.currentHeading, A1_Next.heading) = selAnim.currentHeading
  /\ A1_Start.lng < selAnim.currentLng /\ selAnim.currentLng < A1_Next.lng
  /\ flightObjs[sel].mesh.lng = selAnim.currentLng
  /\ flightObjs[sel].mesh.lng # flightObjs[sel].lng

\* the interpolated position is the reported position of the data object o
CurrentAt(anim, o) ==
  /\ anim.currentLat = o.lat
  /\ anim.currentLng = o.lng
  /\ anim.currentHeading = o.heading

\* the target is the reported position of the data object o
TargetAt(anim, o) ==
  /\ anim.targetLat = o.lat
  /\ anim.targetLng = o.lng
  /\ anim.targetHeading = o.heading

SameCurrent(a, b) ==
  /\ a.currentLat = b.currentLat
  /\ a.currentLng = b.currentLng
  /\ a.currentHeading = b.currentHeading

C28_Original ==
  [][LET old == props.selectedFlightIcao
         new == props'.selectedFlightIcao
     IN (old # "" /\ new # "" /\ new # old /\ new \in DOMAIN flightObjs') =>
          /\ CurrentAt(selAnim', flightObjs'[new])
          /\ flightObjs'[new].mesh.lat = flightObjs'[new].lat
          /\ flightObjs'[new].mesh.lng = flightObjs'[new].lng]_vars

\* C25: a route with an endpoint at (0,0) or with a coordinate that is not
\* finite has no route arc and no airport markers; any other route has a
\* route arc whose first sample is the departure and whose last sample is
\* the arrival position, and the two markers.
C25_RouteArcValidated ==
  LET r == props.flightRoute[1]
      bad == \/ (r.departureLat = Num(0) /\ r.departureLng = Num(0))
             \/ (r.arrivalLat = Num(0) /\ r.arrivalLng = Num(0))
             \/ \E c \in {r.departureLat, r.departureLng, r.arrivalLat, r.arrivalLng} :
                   c \in {NaN, Infinity}
  IN
  /\ props.flightRoute = None => routeArc = None
  /\ props.flightRoute # None =>
       IF bad THEN routeArc = None
       ELSE /\ routeArc # None
            /\ routeArc[1].first = [lat |-> r.departureLat.n, lng |-> r.departureLng.n]
            /\ routeArc[1].last = [lat |-> r.arrivalLat.n, lng |-> r.arrivalLng.n]
            /\ Len(routeArc[1].markers) = 2

\* a route whose arrival is at (0,0) is held and nothing is drawn for it
C25_Witness ==
  /\ props.flightRoute # None
  /\ props.flightRoute[1].arrivalLat = Num(0) /\ props.flightRoute[1].arrivalLng = Num(0)
  /\ props.flightRoute[1].departureLat # Num(0)
  /\ routeArc = None

(***************************************************************************)
(* Properties of the page with the panel and the globe.                    *)
(***************************************************************************)
\* C21: a poll that arrives while an aircraft is selected and the
\* interpolator is active makes the target the lat, lng and heading that the
\* poll reports for the selected aircraft (when it reports it airborne),
\* whatever the panel's filter.
C21_Original ==
  [][(/\ panelFlights' # panelFlights
      /\ props.selectedFlightIcao # ""
      /\ props'.selectedFlightIcao = props.selectedFlightIcao
      /\ selAnim.active) =>
       LET newest == Find(panelFlights', props.selectedFlightIcao) IN
       (newest # None /\ ~newest[1].onGround) =>
          /\ selAnim'.targetLat = newest[1].lat
          /\ selAnim'.targetLng = newest[1].lng
          /\ selAnim'.targetHeading = newest[1].heading]_vars

\* C30: when the selected aircraft is listed as airborne with a velocity of
\* at least 30 m/s, exactly one arc is drawn for it: the route arc when a
\* route is held, its heading arc otherwise.
C30_Original ==
  LET sel == props.selectedFlightIcao
      listed == Find(props.flights, sel)
      headingArcs == Cardinality({i \in 1..Len(flightArcs) : flightArcs[i].icao24 = sel})
  IN (sel # "" /\ listed # None /\ ~listed[1].onGround /\ listed[1].velocity >= 30) =>
       IF props.flightRoute # None
       THEN routeArc # None /\ headingArcs = 0
       ELSE routeArc = None /\ headingArcs = 1

(***************************************************************************)
(* Further properties of the page.                                         *)
(***************************************************************************)
\* C27: while flight tracking is disabled the flight list is empty and the
\* selection and the route are cleared, also when a poll that was in flight
\* at the time of disabling returns.
C27_Original ==
  ~flightsEnabled =>
     /\ flights = {}
     /\ selectedFlightIcao = ""
     /\ flightRoute = None

(***************************************************************************)
(* Further properties of the resolver.                                     *)
(***************************************************************************)
\* the response returned last is a route resolved by strategy `by`
Resolved(by) == last.resp.status = 200 /\ last.via = by

\* C24: a route that Strategy B returns names two distinct codes: a text
\* with the same known code twice and no other known code yields no route.
C24_Original ==
  Resolved("B") => last.resp.route.departureAirport # last.resp.route.arrivalAirport

\* C26: a freshly resolved route is not marked cached; for DAL1950 a route
\* from a source that supplies neither has flightNumber "DL 1950" and
\* airline "Delta Air Lines"; the airline and the flight number that the
\* flights block supplies are returned as supplied.
C26_CallsignDefaults ==
  LET route == last.resp.route IN
  /\ (Resolved("A") \/ Resolved("B") \/ Resolved("C")) => ~last.resp.cached
  /\ ((Resolved("B") \/ Resolved("C")) /\ last.cacheKey = "DAL1950") =>
       route.flightNumber = "DL 1950" /\ route.airline = "Delta Air Lines"
  /\ (Resolved("A") /\ route.departureAirport = "ZZZ" /\ last.cacheKey = "DAL1950") =>
       route.flightNumber = "DL 1950" /\ route.airline = "Delta Air Lines"
  /\ (Resolved("A") /\ route.departureAirport = "JFK") =>
       route.flightNumber = "Delta 1950" /\ route.airline = "Delta"

\* the flights block answered for DAL1950 with its own airline and number
C26_Witness ==
  /\ Resolved("A") /\ last.cacheKey = "DAL1950"
  /\ last.resp.route.flightNumber = "Delta 1950"
  /\ last.resp.route.airline = "Delta"
  /\ ~last.resp.cached

\* C29: once a registry load has failed, the next resolution that gets past
\* the cache loads the registry again.
C29_Original ==
  [][(/\ airportDb = Some(EmptyDb)
      /\ Latest' # Latest
      /\ reqs'[Latest'].pc # "done") => reqs'[Latest'].pc = "registry"]_vars

=============================================================================
